---- MODULE Spec2Model ----
(***************************************************************************)
(* A model of the EmailLabeller review component                           *)
(* (src/src/EmailIntentVisualizer.jsx) together with the demo host         *)
(* (App, src/unnamed/part_002) that feeds it documents and receives its    *)
(* feedback.                                                               *)
(*                                                                         *)
(* Conventions.  A JavaScript string that is a text (span text, node text) *)
(* is a sequence of one-character strings, so that indexOf / substring /   *)
(* trim are computed.  Other strings (xpath, type, field, id) are TLA+     *)
(* strings.  An absent (undefined) property is UStr for strings, UNum for  *)
(* numbers and <<>> for texts; a nullable state (null | object) is a       *)
(* sequence of length 0 or 1.                                              *)
(***************************************************************************)
EXTENDS Integers, Sequences, FiniteSets, TLC

VARIABLES
  doc,                \* App: index of the current apiResponse (example)
  readOnly,           \* App: readOnly prop
  notification,       \* App: "none" | "success" | "error"
  loading,            \* App: loading flag
  inFlight,           \* App: submissions handed over whose promise is unsettled
  clearTimers,        \* App: pending 3 s notification-clear timers
  selectedPrediction, \* <<>> or <<prediction_id>>
  activeSpan,         \* [kind: "null" | "span" | "id", idx, span, id]
  editMode,
  feedbackData,       \* [PIDs -> <<>> or <<CorrectionRecord>>]
  highlightedText,    \* <<>> or <<span>>: the pending candidate
  editPanelVisible,
  selectionMode,
  selectedText,       \* <<>> or <<[text, xpath, startOffset, endOffset]>>; read
                      \* and set by the handlers like the other states,
                      \* though the component has no useState for it
  arrays,             \* heap of evidence_spans arrays, by reference
  highlights,         \* highlight elements present in the rendered HTML body
  spanListeners,      \* the present elements carry the non-edit click listener
  bodyContent,        \* what the email body element holds of the HTML content
  hlTimer,            \* pending 50 ms applyHighlights timer on the live wrapper
  selTimers,          \* pending 100 ms deferred handleApplyTextSelection calls
  drag,               \* <<>> or <<the drag state of the listener effect's
                      \* closure: activeHandle and originalSpanData>>
  docListeners,       \* handleDrag and handleDragEnd are registered on document
  handleListeners,    \* the resize handles present carry handleDragStart
  bodyResizing,       \* document.body carries the class 'resizing-evidence'
  call,               \* <<>> or <<arguments>>: a function applied on its own
  result              \* <<>> or <<what the function applied to call returned>>

compVars == <<doc, readOnly, notification, loading, inFlight, clearTimers,
          selectedPrediction, activeSpan, editMode, feedbackData,
          highlightedText, editPanelVisible, selectionMode, selectedText,
          arrays, highlights, spanListeners, bodyContent, hlTimer,
          selTimers, drag, docListeners, handleListeners, bodyResizing>>

appVars == <<doc, readOnly, notification, loading, inFlight, clearTimers>>
domVars == <<highlights, spanListeners, bodyContent, hlTimer>>
dragVars == <<drag, docListeners, handleListeners, bodyResizing>>
fnVars == <<call, result>>
vars == <<compVars, fnVars>>

(***************************************************************************)
(* Bounds of the model.                                                    *)
(***************************************************************************)
MaxEvidence == 2     \* longest evidence list a CorrectionRecord may reach
MaxClock == 0        \* Date.now() returns a value in 0..MaxClock
MaxSelTimers == 2    \* deferred selection applies pending at once
MaxInFlight == 1     \* unsettled submissions at once
MaxClearTimers == 1  \* pending notification-clear timers at once

(***************************************************************************)
(* Undefined values.                                                       *)
(***************************************************************************)
UStr == ""
UNum == -1
NoText == <<>>

Min(a, b) == IF a < b THEN a ELSE b
Max(a, b) == IF a > b THEN a ELSE b

(***************************************************************************)
(* String.prototype functions on texts.                                    *)
(***************************************************************************)
\* s.substring(a, b): arguments clamped to 0..length and swapped if a > b
Substring(s, a, b) ==
  LET ca == Max(0, Min(a, Len(s)))
      cb == Max(0, Min(b, Len(s)))
  IN  SubSeq(s, Min(ca, cb) + 1, Max(ca, cb))

\* s.substring(a)
SubstringFrom(s, a) == Substring(s, a, Len(s))

\* s.indexOf(t): index of the first occurrence, -1 if none
IndexOf(s, t) ==
  LET hits == {i \in 0..(Len(s) - Len(t)) : SubSeq(s, i + 1, i + Len(t)) = t}
  IN  IF hits = {} THEN -1 ELSE CHOOSE i \in hits : \A j \in hits : i <= j

\* s.includes(t)
Includes(s, t) == IndexOf(s, t) >= 0

IsSpace(c) == c = " "

\* s.trim()
Trim(s) ==
  LET keep == {i \in 1..Len(s) : ~IsSpace(s[i])}
  IN  IF keep = {} THEN <<>>
      ELSE SubSeq(s, CHOOSE i \in keep : \A j \in keep : i <= j,
                     CHOOSE i \in keep : \A j \in keep : i >= j)

(***************************************************************************)
(* Evidence spans.                                                         *)
(***************************************************************************)
SpanFields == {"xpath", "relative_start", "relative_end", "start", "end",
               "text", "type", "field", "id",
               "original_xpath", "original_relative_start",
               "original_relative_end", "original_start", "original_end"}

NumFields == {"relative_start", "relative_end", "start", "end",
              "original_relative_start", "original_relative_end",
              "original_start", "original_end"}

Undefined(f) == IF f \in NumFields THEN UNum
                ELSE IF f = "text" THEN NoText ELSE UStr

\* the object with no property
EmptySpan == [f \in SpanFields |-> Undefined(f)]

Has(s, f) == s[f] # Undefined(f)

\* { ...a, ...b }
Spread(a, b) == [f \in SpanFields |-> IF Has(b, f) THEN b[f] ELSE a[f]]

\* a structural (HTML) evidence span of the input document
HtmlSpan(xpath, rs, re, text, type, field, id) ==
  [EmptySpan EXCEPT !.xpath = xpath, !.relative_start = rs,
                    !.relative_end = re, !.text = text, !.type = type,
                    !.field = field, !.id = id]

\* a flat (plain text) evidence span of the input document
FlatSpan(start, end, text, type, field) ==
  [EmptySpan EXCEPT !.start = start, !.end = end, !.text = text,
                    !.type = type, !.field = field]

(***************************************************************************)
(* The input documents (apiResponse values the host cycles through).       *)
(***************************************************************************)
Docs == {1, 2}
PIDs == {"P1", "P2", "P3"}

IsHtml(d) == d = 1

\* prediction ids of a document, in card order
Predictions(d) == IF d = 1 THEN <<"P1", "P2">> ELSE <<"P3">>

DocOf(p) == IF p = "P3" THEN 2 ELSE 1

\* path of the rendered email body element in the live page
LiveBodyPath == "/html/body/div[1]/div[1]/main[1]/div[1]/div[1]/div[1]/div[2]"
LiveWrapperPath == LiveBodyPath \o "/div[1]"

\* the element nodes under the body of an HTML document: capture-time path,
\* path in the live page, and the text of its text node
Nodes(d) ==
  IF d = 1
  THEN << [xpath |-> "/html/body/p[1]", live |-> LiveWrapperPath \o "/p[1]",
           text |-> <<"a", "b", " ", "c", "a", "b">>],
          [xpath |-> "/html/body/p[2]", live |-> LiveWrapperPath \o "/p[2]",
           text |-> <<"x", "y", "z">>],
          [xpath |-> "/html/body/p[3]", live |-> LiveWrapperPath \o "/p[3]",
           text |-> <<" ">>] >>
  ELSE << >>

\* email.body.content of an HTML document as markup: the elements under its
\* body with their attribute names (the p elements are those of Nodes)
RawHtml(d) ==
  IF d = 1
  THEN << [tag |-> "p", attrs |-> {"style"}],
          [tag |-> "p", attrs |-> {"onclick"}],
          [tag |-> "p", attrs |-> {}],
          [tag |-> "script", attrs |-> {}] >>
  ELSE << >>

\* DOMPurify.sanitize: elements whose tag is not allowed are dropped, and
\* so are the attributes that are not allowed on the elements kept
AllowedTags == {"p", "div", "span", "table", "tr", "td", "a"}
AllowedAttrs == {"style", "class", "href"}

Sanitize(html) ==
  LET Keep(e) == [tag |-> e.tag, attrs |-> e.attrs \cap AllowedAttrs]
  IN  SelectSeq([i \in 1..Len(html) |-> Keep(html[i])],
                LAMBDA e : e.tag \in AllowedTags)

\* dangerouslySetInnerHTML={createSafeHtml(emailContent)}: the body element
\* holds the sanitized markup; a plain-text body holds no markup
RenderedBody(d) ==
  [wrapper |-> FALSE,
   nodes |-> IF IsHtml(d) THEN Sanitize(RawHtml(d)) ELSE <<>>]

\* the highlight effect: the body is emptied and holds one wrapper div with
\* clones of the body children of DOMParser's parse of emailContent
WrappedBody(d) == [wrapper |-> TRUE, nodes |-> RawHtml(d)]

\* email.body.content of a plain-text document
Content(d) == IF d = 2 THEN <<"h", "i", " ", "a", "b">> ELSE <<>>

\* evidence_spans of each prediction as supplied
InputEvidence(p) ==
  CASE p = "P1" ->
         << HtmlSpan("/html/body/p[1]", 4, 6, <<"a", "b">>, "intent", UStr, UStr) >>
    [] p = "P2" ->
         << HtmlSpan("/html/body/table[1]/tr[1]/td[1]", 0, 2, <<"y", "z">>,
                     "action", UStr, "e1") >>
    [] OTHER ->
         << FlatSpan(3, 5, <<"a", "b">>, "artefact_detail", "currency") >>

(***************************************************************************)
(* Text Locator (applyHighlights, text location part).                     *)
(***************************************************************************)
PartialMinLen == 5
PartialMaxLen == 15

\* a variant of the locator that keeps the declared offsets whenever they
\* are given, whatever the text is
LocateRangeByOffsets(tc, span) ==
  LET rs0 == Max(0, span.relative_start)
      re0 == IF Has(span, "relative_end") THEN span.relative_end
             ELSE IF span.text # NoText THEN rs0 + Len(span.text)
             ELSE Len(tc)
      declared == <<Min(rs0, Len(tc)), Min(re0, Len(tc))>>
  IN  IF Has(span, "relative_start") /\ Has(span, "relative_end")
        THEN declared
      ELSE IF span.text # NoText /\ Includes(tc, span.text)
        THEN <<IndexOf(tc, span.text), IndexOf(tc, span.text) + Len(span.text)>>
      ELSE declared

\* the range of the span inside the text node content tc, as <<start, end>>
\* before the validity test
LocateRange(tc, span) ==
  LET rs0 == Max(0, span.relative_start)
      re0 == IF Has(span, "relative_end") THEN span.relative_end
             ELSE IF span.text # NoText THEN rs0 + Len(span.text)
             ELSE Len(tc)
      rs1 == Min(rs0, Len(tc))
      re1 == Min(re0, Len(tc))
      trimmed == Trim(span.text)
      partial == Substring(trimmed, 0, Min(Len(trimmed), PartialMaxLen))
  IN  IF span.text = NoText THEN <<rs1, re1>>
      ELSE IF Includes(tc, span.text)
        THEN <<IndexOf(tc, span.text), IndexOf(tc, span.text) + Len(span.text)>>
      ELSE IF Includes(tc, trimmed)
        THEN <<IndexOf(tc, trimmed), IndexOf(tc, trimmed) + Len(trimmed)>>
      ELSE IF Len(trimmed) > PartialMinLen /\ Includes(tc, partial)
        THEN <<IndexOf(tc, partial), IndexOf(tc, partial) + Len(partial)>>
      ELSE <<rs1, re1>>

\* "Skip if we have invalid positions"
Degenerate(tc, r) == r[1] >= r[2] \/ r[2] <= 0 \/ r[2] > Len(tc)

(***************************************************************************)
(* XPath resolution of a span's path against the rendered body of document *)
(* d: the index of the matched node in Nodes(d), 0 when nothing matches.   *)
(***************************************************************************)
ResolveXPath(d, xpath) ==
  LET hits == {n \in 1..Len(Nodes(d)) : Nodes(d)[n].xpath = xpath}
  IN  IF hits = {} THEN 0 ELSE CHOOSE n \in hits : \A m \in hits : n <= m

\* findFirstTextNode: index of the first text fragment that is not blank,
\* 0 when there is none
FindFirstTextNode(frags) ==
  LET ok == {i \in 1..Len(frags) : Trim(frags[i]) # <<>>}
  IN  IF ok = {} THEN 0 ELSE CHOOSE i \in ok : \A j \in ok : i <= j

\* span.id || `span-${index}`
SpanIdOf(span, index) ==
  IF span.id # UStr THEN span.id ELSE "span-" \o ToString(index)

\* editMode as createSpanElement sees it: the callback is memoised with no
\* dependencies and closes over the first render
MemoEditMode == FALSE

\* createSpanElement: the data the element carries, its 'active' class and
\* whether it is given resize handles
CreateSpanElement(text, isActive, spanId, spanType, fieldName) ==
  [spanId |-> spanId, spanText |-> text, spanType |-> spanType,
   fieldName |-> fieldName, active |-> isActive,
   handles |-> (MemoEditMode /\ isActive)]

\* the values of activeSpan: null, a span object, or the id of an element
NullActive == [kind |-> "null", idx |-> 0, span |-> EmptySpan, id |-> UStr]
SpanActive(i, s) == [kind |-> "span", idx |-> i, span |-> s, id |-> UStr]
IdActive(id) == [kind |-> "id", idx |-> 0, span |-> EmptySpan, id |-> id]

\* activeSpan.f  (undefined when activeSpan is a string)
ActiveField(f) == IF activeSpan.kind = "span" THEN activeSpan.span[f]
                  ELSE Undefined(f)

\* isActive of applyHighlights, as the render that scheduled it sees activeSpan
HtmlIsActive(span) ==
  /\ activeSpan.kind # "null"
  /\ ActiveField("xpath") = span.xpath
  /\ ActiveField("relative_start") = span.relative_start
  /\ ActiveField("relative_end") = span.relative_end

(***************************************************************************)
(* applyHighlights(wrapper of document d, spans): the spans are processed  *)
(* in list order; st.frags[n] is the list of text fragments under node n   *)
(* in document order (a highlighted range splits one fragment in three),   *)
(* st.els the elements created so far.                                     *)
(***************************************************************************)
HighlightOne(d, st, span, index) ==
  LET n == ResolveXPath(d, span.xpath)
  IN  IF n = 0 THEN st
      ELSE
        LET frags == st.frags[n]
            f == FindFirstTextNode(frags)
        IN  IF f = 0 THEN st
            ELSE
              LET tc == frags[f]
                  r == LocateRange(tc, span)
              IN  IF Degenerate(tc, r) THEN st
                  ELSE
                    LET el == CreateSpanElement(
                                Substring(tc, r[1], r[2]),
                                HtmlIsActive(span),
                                SpanIdOf(span, index),
                                IF span.type # UStr THEN span.type ELSE "default",
                                span.field)
                        split == << Substring(tc, 0, r[1]),
                                    Substring(tc, r[1], r[2]),
                                    SubstringFrom(tc, r[2]) >>
                    IN  [frags |-> [st.frags EXCEPT ![n] =
                                      SubSeq(frags, 1, f - 1) \o split
                                        \o SubSeq(frags, f + 1, Len(frags))],
                         els |-> Append(st.els, el)]

\* a variant of the loop over the spans that ends at the first span that
\* gives no highlight
RECURSIVE HighlightFromAborting(_, _, _, _)
HighlightFromAborting(d, st, spans, i) ==
  IF i > Len(spans) THEN st
  ELSE IF HighlightOne(d, st, spans[i], i - 1) = st THEN st
  ELSE HighlightFromAborting(d, HighlightOne(d, st, spans[i], i - 1),
                             spans, i + 1)

RECURSIVE HighlightFrom(_, _, _, _)
HighlightFrom(d, st, spans, i) ==
  IF i > Len(spans) THEN st
  ELSE HighlightFrom(d, HighlightOne(d, st, spans[i], i - 1), spans, i + 1)

\* a variant that applies the spans to a wrapper that still holds the
\* elements of an earlier application of the same spans
ApplyHighlightsOnOld(d, spans) ==
  LET fresh == [frags |-> [n \in 1..Len(Nodes(d)) |-> <<Nodes(d)[n].text>>],
                els |-> <<>>]
  IN  HighlightFrom(d, HighlightFrom(d, fresh, spans, 1), spans, 1).els

ApplyHighlights(d, spans) ==
  HighlightFrom(d,
                [frags |-> [n \in 1..Len(Nodes(d)) |-> <<Nodes(d)[n].text>>],
                 els |-> <<>>],
                spans, 1).els

(***************************************************************************)
(* State of the component after construction.                              *)
(***************************************************************************)
ArrayRefs == {<<k, p>> : k \in {"pred", "rec"}, p \in PIDs}

PredEvidenceRef(p) == <<"pred", p>>

EmptyLedger == [p \in PIDs |-> <<>>]

\* Object.keys(feedbackData)
LedgerKeys == {p \in PIDs : feedbackData[p] # <<>>}

\* the ledger as the sink sees it: each record with its evidence list
LedgerValue(fd, arr) ==
  [p \in PIDs |->
     IF fd[p] = <<>> THEN <<>>
     ELSE <<[prediction_id |-> fd[p][1].prediction_id,
             evidence_spans |-> arr[fd[p][1].evidence_ref]]>>]

\* arrays no record refers to any more are dropped
Collect(arr) == [r \in ArrayRefs |-> IF r[1] = "rec" THEN <<>> ELSE arr[r]]

Mounted ==
  /\ doc = 1
  /\ readOnly = FALSE
  /\ notification = "none"
  /\ loading = FALSE
  /\ inFlight = <<>>
  /\ clearTimers = 0
  /\ selectedPrediction = <<>>
  /\ activeSpan = NullActive
  /\ editMode = FALSE
  /\ feedbackData = EmptyLedger
  /\ highlightedText = <<>>
  /\ editPanelVisible = FALSE
  /\ selectionMode = FALSE
  /\ selectedText = <<>>
  /\ arrays = [r \in ArrayRefs |->
                 IF r[1] = "pred" THEN InputEvidence(r[2]) ELSE <<>>]
  /\ highlights = <<>>
  /\ spanListeners = FALSE
  /\ bodyContent = RenderedBody(1)
  /\ hlTimer = <<>>
  /\ selTimers = <<>>
  /\ drag = <<>>
  /\ docListeners = FALSE
  /\ handleListeners = FALSE
  /\ bodyResizing = FALSE

\* the component as mounted, no function being applied on its own
Init == Mounted /\ call = <<>> /\ result = <<>>

(***************************************************************************)
(* Effects that run after a handler's state updates are committed, for a   *)
(* render in which the document is the same:                               *)
(*  - the HTML highlight effect (deps selectedPrediction, applyHighlights, *)
(*    the latter changing with selectedPrediction, feedbackData and        *)
(*    activeSpan) empties the body, inserts a new wrapper and defers       *)
(*    applyHighlights by 50 ms; a timer whose wrapper has been detached    *)
(*    writes to the detached subtree only and is not kept;                 *)
(*  - the listener effect (deps selectedPrediction, editMode, readOnly)    *)
(*    replaces the elements by clones and, outside edit mode, adds the     *)
(*    click listener to the elements present at that time; in edit mode it *)
(*    adds handleDragStart to the resize handles present and handleDrag    *)
(*    and handleDragEnd to the document; its cleanup removes them and the  *)
(*    body class, and the drag state of the old closure is gone with it.   *)
(* fbSet: the handler called setFeedbackData (always a new object).        *)
(***************************************************************************)
RunEffects(fbSet) ==
  LET hlChanged == \/ fbSet
                   \/ selectedPrediction' # selectedPrediction
                   \/ activeSpan' # activeSpan
      lsChanged == \/ selectedPrediction' # selectedPrediction
                   \/ editMode' # editMode
                   \/ readOnly' # readOnly
      hlRuns == IsHtml(doc) /\ hlChanged /\ selectedPrediction' # <<>>
  IN  /\ IF hlRuns
         THEN /\ highlights' = <<>>
              /\ spanListeners' = FALSE
              /\ bodyContent' = WrappedBody(doc)
              /\ hlTimer' = <<[pid |-> selectedPrediction'[1], doc |-> doc]>>
         ELSE /\ highlights' = highlights
              /\ bodyContent' = bodyContent
              /\ hlTimer' = hlTimer
              /\ spanListeners' = IF lsChanged
                                  THEN highlights # <<>> /\ ~editMode'
                                  ELSE spanListeners
      /\ IF lsChanged
         THEN /\ drag' = <<>>
              /\ docListeners' = editMode'
              /\ handleListeners' = editMode'
              /\ bodyResizing' = FALSE
         ELSE /\ UNCHANGED <<drag, docListeners, bodyResizing>>
              /\ handleListeners' = (handleListeners /\ ~hlRuns)

\* the 50 ms timer: applyHighlights(wrapperDiv, evidenceSpans)
HighlightTimerFires ==
  /\ hlTimer # <<>>
  /\ highlights' = ApplyHighlights(hlTimer[1].doc,
                                   arrays[PredEvidenceRef(hlTimer[1].pid)])
  /\ spanListeners' = FALSE
  /\ hlTimer' = <<>>
  /\ UNCHANGED <<fnVars, dragVars, appVars, selectedPrediction, activeSpan, editMode,
                 feedbackData, highlightedText, editPanelVisible,
                 selectionMode, selectedText, arrays, bodyContent,
                 selTimers>>

(***************************************************************************)
(* Card selection, Edit Evidence, clicks.                                  *)
(***************************************************************************)
handlePredictionSelect(p) ==
  /\ selectedPrediction' = <<p>>
  /\ activeSpan' = NullActive
  /\ editMode' = FALSE
  /\ UNCHANGED <<fnVars, appVars, feedbackData, highlightedText,
                 editPanelVisible,
                 selectionMode, selectedText, arrays, selTimers>>
  /\ RunEffects(FALSE)

\* a click on a prediction card of the current document
SelectCard == \E i \in 1..Len(Predictions(doc)) :
                handlePredictionSelect(Predictions(doc)[i])

\* the "Edit Evidence" button: shown when a prediction is selected and the
\* component is not read-only, disabled in edit mode
EditEvidence ==
  /\ selectedPrediction # <<>> /\ ~readOnly
  /\ ~editMode
  /\ editMode' = ~editMode
  /\ UNCHANGED <<fnVars, appVars, selectedPrediction, activeSpan, feedbackData,
                 highlightedText, editPanelVisible, selectionMode,
                 selectedText, arrays, selTimers>>
  /\ RunEffects(FALSE)

\* handleTextSelection, bound to the body's onMouseUp while editMode is on:
\* the value of selectionMode it leaves
handleTextSelection ==
  IF editMode /\ ~(readOnly \/ ~editMode) THEN TRUE ELSE selectionMode

\* the first evidence span of the selected prediction that the element id
\* denotes (by id, or by index for generated ids), 0 when none
FindOriginalSpan(spans, spanId) ==
  LET hits == {i \in 1..Len(spans) :
                 IF spans[i].id # UStr THEN spans[i].id = spanId
                 ELSE spanId = "span-" \o ToString(i - 1)}
  IN  IF hits = {} THEN 0 ELSE CHOOSE i \in hits : \A j \in hits : i <= j

\* the delegated click handler of the email body, for a click on element el
handleEmailBodyClick(el) ==
  LET spans == arrays[PredEvidenceRef(selectedPrediction[1])]
      i == FindOriginalSpan(spans, el.spanId)
  IN  IF ~editMode \/ readOnly \/ selectedPrediction = <<>> \/ i = 0
      THEN /\ UNCHANGED <<activeSpan, highlightedText, editPanelVisible>>
      ELSE /\ activeSpan' = SpanActive(i, spans[i])
           /\ highlightedText' = <<[spans[i] EXCEPT !.text = el.spanText]>>
           /\ editPanelVisible' = TRUE

\* the click listener the listener effect adds to each element outside edit
\* mode; it stops propagation, so the body handler does not run
spanClickListener(el) ==
  /\ activeSpan' = IF readOnly THEN activeSpan ELSE IdActive(el.spanId)
  /\ UNCHANGED <<highlightedText, editPanelVisible>>

\* the user clicks a highlight element of the HTML body: mouseup, then click
ClickHighlight ==
  \E k \in 1..Len(highlights) :
    /\ IsHtml(doc)
    /\ selectionMode' = handleTextSelection
    /\ IF spanListeners THEN spanClickListener(highlights[k])
       ELSE handleEmailBodyClick(highlights[k])
    /\ UNCHANGED <<fnVars, appVars, selectedPrediction, editMode, feedbackData,
                   selectedText, arrays, selTimers>>
    /\ RunEffects(FALSE)

\* handleSpanClick(span), the onClick of a plain-text highlight
handleSpanClick(i, span) ==
  IF readOnly THEN UNCHANGED <<activeSpan, editMode>>
  ELSE /\ activeSpan' = SpanActive(i, span)
       /\ editMode' = TRUE

\* the user clicks a highlight of the plain-text body: mouseup, then click
ClickPlainSpan ==
  /\ ~IsHtml(doc)
  /\ selectedPrediction # <<>>
  /\ \E i \in 1..Len(arrays[PredEvidenceRef(selectedPrediction[1])]) :
       handleSpanClick(i, arrays[PredEvidenceRef(selectedPrediction[1])][i])
  /\ selectionMode' = handleTextSelection
  /\ UNCHANGED <<fnVars, appVars, selectedPrediction, feedbackData,
                 highlightedText,
                 editPanelVisible, selectedText, arrays, selTimers>>
  /\ RunEffects(FALSE)

(***************************************************************************)
(* Selection Capture: free selection.                                      *)
(***************************************************************************)
\* the text nodes a selection can start or end in, with the live path of
\* their parent element
TextNodes(d) ==
  IF IsHtml(d) THEN Nodes(d)
  ELSE <<[xpath |-> UStr, live |-> LiveBodyPath \o "/span[1]",
          text |-> Content(d)]>>

\* the ranges the user selects: start node and offset, end node and offset
DomRanges(d) ==
  IF IsHtml(d)
  THEN {[sn |-> 1, so |-> 2, en |-> 1, eo |-> 6],
        [sn |-> 1, so |-> 2, en |-> 1, eo |-> 3]}
  ELSE {[sn |-> 1, so |-> 0, en |-> 1, eo |-> 2]}

RECURSIVE ConcatTexts(_, _, _)
ConcatTexts(nodes, from, to) ==
  IF from > to THEN <<>>
  ELSE nodes[from].text \o ConcatTexts(nodes, from + 1, to)

\* range.toString()
RangeToString(d, r) ==
  IF r.sn = r.en THEN Substring(TextNodes(d)[r.sn].text, r.so, r.eo)
  ELSE SubstringFrom(TextNodes(d)[r.sn].text, r.so)
         \o ConcatTexts(TextNodes(d), r.sn + 1, r.en - 1)
         \o Substring(TextNodes(d)[r.en].text, 0, r.eo)

\* getXPathForNode(range.commonAncestorContainer)
GetXPathForNode(d, r) ==
  IF r.sn = r.en THEN TextNodes(d)[r.sn].live ELSE LiveWrapperPath

\* a variant that takes the offsets of the range for every selection
SelectionOfRangeOffsets(d, r) ==
  LET text == Trim(RangeToString(d, r))
  IN  IF text = <<>> THEN <<>>
      ELSE <<[text |-> text,
              xpath |-> GetXPathForNode(d, r),
              startOffset |-> r.so,
              endOffset |-> r.eo]>>

\* what handleMouseUp stores with setSelectedText for range r; <<>> when it
\* returns early (blank selection)
SelectionOf(d, r) ==
  LET text == Trim(RangeToString(d, r))
  IN  IF text = <<>> THEN <<>>
      ELSE <<[text |-> text,
              xpath |-> GetXPathForNode(d, r),
              startOffset |-> IF r.sn # r.en THEN 0 ELSE r.so,
              endOffset |-> IF r.sn # r.en THEN Len(text) ELSE r.eo]>>

\* what the deferred handleApplyTextSelection reads of the render it closes
\* over: when one of selectedText and highlightedText is null it takes the
\* early return whatever the other is
Closure(st, ht) ==
  IF st = <<>> \/ ht = <<>>
  THEN [selectedText |-> <<>>, highlightedText |-> <<>>]
  ELSE [selectedText |-> st, highlightedText |-> ht]

\* the native mouseup listener of the body, registered while selectionMode
\* is on; the deferred call runs the handleApplyTextSelection of the render
\* in which the listener was registered, so it sees that render's
\* selectedText and highlightedText
handleMouseUp(r) ==
  IF ~selectionMode \/ SelectionOf(doc, r) = <<>>
  THEN UNCHANGED <<selectedText, selTimers>>
  ELSE /\ Len(selTimers) < MaxSelTimers
       /\ selectedText' = SelectionOf(doc, r)
       /\ selTimers' = Append(selTimers, Closure(selectedText, highlightedText))

\* the user completes a non-collapsed selection in the email body
SelectText ==
  \E r \in DomRanges(doc) :
    /\ handleMouseUp(r)
    /\ selectionMode' = handleTextSelection
    /\ UNCHANGED <<fnVars, appVars, selectedPrediction, activeSpan, editMode,
                   feedbackData, highlightedText, editPanelVisible, arrays>>
    /\ RunEffects(FALSE)

\* a click in the email body outside every highlight (collapsed selection)
ClickEmailBody ==
  /\ selectionMode' = handleTextSelection
  /\ UNCHANGED <<fnVars, appVars, selectedPrediction, activeSpan, editMode,
                 feedbackData, highlightedText, editPanelVisible,
                 selectedText, arrays, selTimers>>
  /\ RunEffects(FALSE)

\* a variant of handleApplyTextSelection that takes the two offsets of the
\* selection the other way round
handleApplyTextSelectionSwapped(st, ht) ==
  IF st = <<>> \/ ht = <<>>
  THEN /\ selectionMode' = FALSE
       /\ selectedText' = <<>>
       /\ UNCHANGED <<highlightedText, editPanelVisible>>
  ELSE /\ highlightedText' =
            <<[ht[1] EXCEPT !.xpath = st[1].xpath,
                            !.text = st[1].text,
                            !.relative_start = st[1].endOffset,
                            !.relative_end = st[1].startOffset]>>
       /\ selectionMode' = FALSE
       /\ selectedText' = <<>>
       /\ editPanelVisible' = TRUE

\* handleApplyTextSelection as closed over selectedText = st and
\* highlightedText = ht
handleApplyTextSelection(st, ht) ==
  IF st = <<>> \/ ht = <<>>
  THEN /\ selectionMode' = FALSE
       /\ selectedText' = <<>>
       /\ UNCHANGED <<highlightedText, editPanelVisible>>
  ELSE /\ highlightedText' =
            <<[ht[1] EXCEPT !.xpath = st[1].xpath,
                            !.text = st[1].text,
                            !.relative_start = st[1].startOffset,
                            !.relative_end = st[1].endOffset]>>
       /\ selectionMode' = FALSE
       /\ selectedText' = <<>>
       /\ editPanelVisible' = TRUE

\* the 100 ms timer of handleMouseUp fires
SelectionTimerFires ==
  /\ selTimers # <<>>
  /\ handleApplyTextSelection(Head(selTimers).selectedText,
                              Head(selTimers).highlightedText)
  /\ selTimers' = Tail(selTimers)
  /\ UNCHANGED <<fnVars, appVars, selectedPrediction, activeSpan, editMode,
                 feedbackData, arrays>>
  /\ RunEffects(FALSE)

(***************************************************************************)
(* The edit panel (renderEditControls).                                    *)
(***************************************************************************)
\* if (!activeSpan || !editMode) return null
EditControlsShown == activeSpan.kind # "null" /\ editMode

TypeOptions == {"artefact_detail"}
FieldOptions == {"isin"}

handleSpanMetadataChange(key, value) ==
  IF highlightedText = <<>> THEN UNCHANGED highlightedText
  ELSE highlightedText' = <<[highlightedText[1] EXCEPT ![key] = value]>>

ChangeType ==
  /\ EditControlsShown
  /\ \E v \in TypeOptions : handleSpanMetadataChange("type", v)
  /\ UNCHANGED <<fnVars, appVars, selectedPrediction, activeSpan, editMode,
                 feedbackData, editPanelVisible, selectionMode, selectedText,
                 arrays, selTimers>>
  /\ RunEffects(FALSE)

ChangeField ==
  /\ EditControlsShown
  /\ \/ (highlightedText # <<>> /\ highlightedText[1].type = "artefact_detail")
     \/ ActiveField("type") = "artefact_detail"
  /\ \E v \in FieldOptions : handleSpanMetadataChange("field", v)
  /\ UNCHANGED <<fnVars, appVars, selectedPrediction, activeSpan, editMode,
                 feedbackData, editPanelVisible, selectionMode, selectedText,
                 arrays, selTimers>>
  /\ RunEffects(FALSE)

enterSelectionMode == selectionMode' = TRUE
exitSelectionMode == selectionMode' = FALSE

\* the "Select Different Text" / "Cancel Selection" button
ToggleSelection ==
  /\ EditControlsShown
  /\ IF selectionMode THEN exitSelectionMode ELSE enterSelectionMode
  /\ UNCHANGED <<fnVars, appVars, selectedPrediction, activeSpan, editMode,
                 feedbackData, highlightedText, editPanelVisible,
                 selectedText, arrays, selTimers>>
  /\ RunEffects(FALSE)

(***************************************************************************)
(* Correction Ledger: applySpanEdit.                                       *)
(***************************************************************************)
\* a variant of RecordSpansRef without the copy: the record shares the
\* prediction's array
RecordSpansAlias(p) == PredEvidenceRef(p)

\* evidence_spans: [...selectedPrediction.evidence_spans], a new array
RecordSpansRef(p) == <<"rec", p>>

\* correctedSpans.findIndex(...) against the active span: 0 when not found
FindCorrectionIndex(list) ==
  LET hits ==
        {i \in 1..Len(list) :
           IF IsHtml(doc)
           THEN /\ list[i].xpath = ActiveField("xpath")
                /\ list[i].relative_start = ActiveField("relative_start")
                /\ list[i].relative_end = ActiveField("relative_end")
           ELSE /\ list[i].start = ActiveField("start")
                /\ list[i].end = ActiveField("end")}
  IN  IF hits = {} THEN 0 ELSE CHOOSE i \in hits : \A j \in hits : i <= j

\* the values Date.now() can return
Clock == 0..MaxClock

\* "Add a new correction that references the original span"
CorrectedSpan(ht, now) ==
  IF IsHtml(doc)
  THEN [ht EXCEPT !.id = "corrected-" \o ToString(now),
                  !.original_xpath = ActiveField("xpath"),
                  !.original_relative_start = ActiveField("relative_start"),
                  !.original_relative_end = ActiveField("relative_end")]
  ELSE [ht EXCEPT !.id = "corrected-" \o ToString(now),
                  !.original_start = ActiveField("start"),
                  !.original_end = ActiveField("end")]

\* a variant of NewSpan that links the added span to the candidate's own place
NewSpanLinked(ht, now) ==
  [ht EXCEPT !.id = "new-" \o ToString(now),
             !.original_xpath = ht.xpath,
             !.original_relative_start = ht.relative_start,
             !.original_relative_end = ht.relative_end,
             !.original_start = ht.start,
             !.original_end = ht.end]

\* "Adding a new span"
NewSpan(ht, now) == [ht EXCEPT !.id = "new-" \o ToString(now)]

\* the evidence list of the record after the edit
EditedSpans(list, ht, now) ==
  IF activeSpan.kind # "null"
  THEN IF FindCorrectionIndex(list) > 0
       THEN [list EXCEPT ![FindCorrectionIndex(list)] =
                           Spread(list[FindCorrectionIndex(list)], ht)]
       ELSE Append(list, CorrectedSpan(ht, now))
  ELSE Append(list, NewSpan(ht, now))

applySpanEdit ==
  IF selectedPrediction = <<>> \/ highlightedText = <<>>
  THEN UNCHANGED vars
  ELSE
    LET pid == selectedPrediction[1]
        fresh == feedbackData[pid] = <<>>
        ref == IF fresh THEN RecordSpansRef(pid)
               ELSE feedbackData[pid][1].evidence_ref
        arr1 == IF fresh
                THEN [arrays EXCEPT ![ref] = arrays[PredEvidenceRef(pid)]]
                ELSE arrays
    IN  \E now \in Clock :
        LET list == EditedSpans(arr1[ref], highlightedText[1], now) IN
        /\ Len(list) <= MaxEvidence
        /\ arrays' = [arr1 EXCEPT ![ref] = list]
        /\ feedbackData' = [feedbackData EXCEPT ![pid] =
                              <<[prediction_id |-> pid, evidence_ref |-> ref]>>]
        /\ editMode' = FALSE
        /\ activeSpan' = NullActive
        /\ highlightedText' = <<>>
        /\ UNCHANGED <<fnVars, appVars, selectedPrediction, editPanelVisible,
                       selectionMode, selectedText, selTimers>>
        /\ RunEffects(TRUE)

\* the "Apply" button of the edit panel (disabled without a candidate)
Apply ==
  /\ EditControlsShown
  /\ highlightedText # <<>>
  /\ applySpanEdit

\* a variant of cancelSpanEdit that leaves selection mode as it is
cancelSpanEditKeepsSelecting ==
  /\ editMode' = FALSE
  /\ highlightedText' = <<>>
  /\ UNCHANGED <<fnVars, appVars, selectedPrediction, activeSpan, feedbackData,
                 editPanelVisible, selectionMode, selectedText, arrays,
                 selTimers>>
  /\ RunEffects(FALSE)

cancelSpanEdit ==
  /\ editMode' = FALSE
  /\ highlightedText' = <<>>
  /\ selectionMode' = FALSE
  /\ UNCHANGED <<fnVars, appVars, selectedPrediction, activeSpan, feedbackData,
                 editPanelVisible, selectedText, arrays, selTimers>>
  /\ RunEffects(FALSE)

\* the "Cancel" button of the edit panel
Cancel ==
  /\ EditControlsShown
  /\ cancelSpanEdit

(***************************************************************************)
(* Submission.                                                             *)
(***************************************************************************)
\* App.handleFeedbackSubmit up to its await: the call returns a promise
onFeedbackSubmit(payload) ==
  /\ Len(inFlight) < MaxInFlight
  /\ inFlight' = Append(inFlight, payload)
  /\ loading' = TRUE
  /\ UNCHANGED <<doc, readOnly, notification, clearTimers>>

\* a variant of handleSubmitFeedback that leaves edit mode as it is
handleSubmitFeedbackKeepsEditing ==
  IF LedgerKeys = {}
  THEN UNCHANGED vars
  ELSE /\ onFeedbackSubmit(LedgerValue(feedbackData, arrays))
       /\ feedbackData' = EmptyLedger
       /\ selectedPrediction' = <<>>
       /\ activeSpan' = NullActive
       /\ editMode' = editMode
       /\ arrays' = Collect(arrays)
       /\ UNCHANGED <<fnVars, highlightedText, editPanelVisible,
                      selectionMode, selectedText, selTimers>>
       /\ RunEffects(TRUE)

\* a variant of handleSubmitFeedback without the test for an empty ledger
handleSubmitFeedbackUnguarded ==
  /\ onFeedbackSubmit(LedgerValue(feedbackData, arrays))
  /\ feedbackData' = EmptyLedger
  /\ selectedPrediction' = <<>>
  /\ activeSpan' = NullActive
  /\ editMode' = FALSE
  /\ arrays' = Collect(arrays)
  /\ UNCHANGED <<fnVars, highlightedText, editPanelVisible, selectionMode,
                 selectedText, selTimers>>
  /\ RunEffects(TRUE)

handleSubmitFeedback ==
  IF LedgerKeys = {}
  THEN UNCHANGED vars
  ELSE /\ onFeedbackSubmit(LedgerValue(feedbackData, arrays))
       /\ feedbackData' = EmptyLedger
       /\ selectedPrediction' = <<>>
       /\ activeSpan' = NullActive
       /\ editMode' = FALSE
       /\ arrays' = Collect(arrays)
       /\ UNCHANGED <<fnVars, highlightedText, editPanelVisible,
                      selectionMode, selectedText, selTimers>>
       /\ RunEffects(TRUE)

\* the "Submit Feedback" button: shown when a prediction is selected and
\* the component is not read-only, disabled while the ledger is empty
SubmitFeedback ==
  /\ selectedPrediction # <<>> /\ ~readOnly
  /\ LedgerKeys # {}
  /\ handleSubmitFeedback

\* App.handleFeedbackSubmit after the await: submitFeedback resolved
FeedbackResolved ==
  \E i \in 1..Len(inFlight) :
    /\ clearTimers < MaxClearTimers
    /\ inFlight' = SubSeq(inFlight, 1, i - 1) \o SubSeq(inFlight, i + 1, Len(inFlight))
    /\ notification' = "success"
    /\ clearTimers' = clearTimers + 1
    /\ loading' = FALSE
    /\ UNCHANGED <<fnVars, dragVars, doc, readOnly, selectedPrediction, activeSpan,
                   editMode, feedbackData, highlightedText, editPanelVisible,
                   selectionMode, selectedText, arrays, domVars, selTimers>>

\* App.handleFeedbackSubmit after the await: submitFeedback rejected
FeedbackRejected ==
  \E i \in 1..Len(inFlight) :
    /\ inFlight' = SubSeq(inFlight, 1, i - 1) \o SubSeq(inFlight, i + 1, Len(inFlight))
    /\ notification' = "error"
    /\ loading' = FALSE
    /\ UNCHANGED <<fnVars, dragVars, doc, readOnly, clearTimers, selectedPrediction,
                   activeSpan,
                   editMode, feedbackData, highlightedText, editPanelVisible,
                   selectionMode, selectedText, arrays, domVars, selTimers>>

\* setTimeout(() => setNotification(null), 3000)
ClearNotification ==
  /\ clearTimers > 0
  /\ clearTimers' = clearTimers - 1
  /\ notification' = "none"
  /\ UNCHANGED <<fnVars, dragVars, doc, readOnly, loading, inFlight, selectedPrediction,
                 activeSpan, editMode, feedbackData, highlightedText,
                 editPanelVisible, selectionMode, selectedText, arrays,
                 domVars, selTimers>>

(***************************************************************************)
(* The host changes the props.                                             *)
(***************************************************************************)
\* App.cycleExample, then the component's render with the new apiResponse
\* and its effects: the reset effect, the highlight effect, which in
\* that render still sees the previously selected prediction, and the
\* listener effect, which has run again outside edit mode when all is settled
cycleExample ==
  \E d \in Docs \ {doc} :
    /\ doc' = d
    /\ feedbackData' = EmptyLedger
    /\ selectedPrediction' = <<>>
    /\ activeSpan' = NullActive
    /\ editMode' = FALSE
    /\ arrays' = Collect(arrays)
    /\ highlights' = <<>>
    /\ spanListeners' = FALSE
    /\ bodyContent' = IF IsHtml(d) /\ selectedPrediction # <<>>
                      THEN WrappedBody(d)
                      ELSE RenderedBody(d)
    /\ hlTimer' = IF IsHtml(d) /\ selectedPrediction # <<>>
                  THEN <<[pid |-> selectedPrediction[1], doc |-> d]>>
                  ELSE <<>>
    /\ drag' = <<>>
    /\ docListeners' = FALSE
    /\ handleListeners' = FALSE
    /\ bodyResizing' = FALSE
    /\ UNCHANGED <<fnVars, readOnly, notification, loading, inFlight,
                   clearTimers,
                   highlightedText, editPanelVisible, selectionMode,
                   selectedText, selTimers>>

toggleReadOnly ==
  /\ readOnly' = ~readOnly
  /\ UNCHANGED <<fnVars, doc, notification, loading, inFlight, clearTimers,
                 selectedPrediction, activeSpan, editMode, feedbackData,
                 highlightedText, editPanelVisible, selectionMode,
                 selectedText, arrays, selTimers>>
  /\ RunEffects(FALSE)

\* predictionFeedback.corrected_value.evidence_spans as the next edit of p
\* finds it: the list of the record, or the copy a first edit would start from
RecordList(p) ==
  IF feedbackData[p] = <<>> THEN arrays[PredEvidenceRef(p)]
  ELSE arrays[feedbackData[p][1].evidence_ref]

(***************************************************************************)
(* Plain-text rendering (renderPlainTextWithSpans).  The rendering is a    *)
(* function of the component state; only the highlighted elements are      *)
(* kept, in document order.                                                *)
(***************************************************************************)
\* (a, b) => a.start - b.start; NaN (an undefined start) compares as equal
CompareStart(a, b) ==
  IF a.start = UNum \/ b.start = UNum THEN 0 ELSE a.start - b.start

\* [...spans].sort(...): stable
RECURSIVE SortByStart(_)
SortByStart(spans) ==
  IF spans = <<>> THEN <<>>
  ELSE LET n == Len(spans)
           head == SortByStart(SubSeq(spans, 1, n - 1))
           after == {i \in 1..Len(head) : CompareStart(head[i], spans[n]) <= 0}
           k == IF after = {} THEN 0
                ELSE CHOOSE i \in after : \A j \in after : j <= i
       IN  SubSeq(head, 1, k) \o <<spans[n]>> \o SubSeq(head, k + 1, Len(head))

\* correctedSpans.find(s => s.original_start === span.start && ...): 0 if none
FindModifiedPlain(corrected, span) ==
  LET hits == {i \in 1..Len(corrected) :
                 /\ corrected[i].original_start = span.start
                 /\ corrected[i].original_end = span.end}
  IN  IF hits = {} THEN 0 ELSE CHOOSE i \in hits : \A j \in hits : i <= j

\* a variant of the renderer that cuts the text from the start of the content
PlainSpanTextFromZero(content, corrected, span) ==
  Substring(content, 0, span.end)

\* spanText: modifiedSpan.new_text, a property no code writes (undefined), or
\* the characters of the content
PlainSpanText(content, corrected, span) ==
  IF FindModifiedPlain(corrected, span) > 0 THEN NoText
  ELSE Substring(content, span.start, span.end)

\* isActive of the plain-text renderer
PlainIsActive(span) ==
  /\ activeSpan.kind # "null"
  /\ ActiveField("start") = span.start
  /\ ActiveField("end") = span.end

\* the highlighted elements renderPlainTextWithSpans returns
renderPlainTextWithSpans ==
  IF selectedPrediction = <<>> THEN <<>>
  ELSE LET pid == selectedPrediction[1]
           sorted == SortByStart(arrays[PredEvidenceRef(pid)])
           corrected == IF feedbackData[pid] = <<>> THEN <<>>
                        ELSE arrays[feedbackData[pid][1].evidence_ref]
       IN  [i \in 1..Len(sorted) |->
              [key |-> <<sorted[i].start, sorted[i].end>>,
               text |-> PlainSpanText(Content(doc), corrected, sorted[i]),
               active |-> PlainIsActive(sorted[i]),
               modified |-> FindModifiedPlain(corrected, sorted[i]) > 0]]

(***************************************************************************)
(* Resizing by the handles (the drag handlers of the listener effect).     *)
(* createSpanElement is memoised over the first render, where editMode is  *)
(* false, and builds no handle itself; handleDragStart is bound to the      *)
(* elements of class 'resize-handle' found under the elements of class     *)
(* 'evidence-span' of the body, which the markup of the document can       *)
(* carry.  Such an element carries the data createSpanElement gives the    *)
(* element of a span: its id (or the generated one) and its text.          *)
(***************************************************************************)
MaxDrag == 1              \* pointer positions span MaxDrag character widths
ApproxCharWidth == 8      \* approxCharWidth

\* e.clientX of the mousemove events: up to MaxDrag character widths to
\* either side of the handle, and half a width to its right
PointerXs ==
  {ApproxCharWidth * k : k \in 0..(2 * MaxDrag)}
    \cup {ApproxCharWidth * MaxDrag + ApproxCharWidth \div 2}

\* e.clientX of the mousedown event: where the handle is
HandleX == ApproxCharWidth * MaxDrag

\* Math.round(xDiff / approxCharWidth): halves round up
CharDiff(xDiff) == (2 * xDiff + ApproxCharWidth) \div (2 * ApproxCharWidth)

HandleTypes == {"start", "end"}

\* dataset of the elements that carry handles, for the prediction p
DragTargets(p) ==
  {[spanId |-> SpanIdOf(arrays[PredEvidenceRef(p)][i], i - 1),
    spanText |-> arrays[PredEvidenceRef(p)][i].text] :
     i \in 1..Len(arrays[PredEvidenceRef(p)])}

\* mousedown on a resize handle
handleDragStart(target, handleType, x) ==
  /\ IF ~editMode THEN UNCHANGED <<drag, bodyResizing>>
     ELSE /\ drag' = <<[handleType |-> handleType,
                        spanId |-> target.spanId,
                        spanText |-> target.spanText,
                        initialX |-> x,
                        nodeValue |-> target.spanText,
                        clientX |-> x,
                        newStartOffset |-> UNum,
                        newEndOffset |-> UNum]>>
          /\ bodyResizing' = TRUE
  /\ UNCHANGED <<fnVars, appVars, domVars, selectedPrediction, activeSpan,
                 editMode, feedbackData, highlightedText, editPanelVisible,
                 selectionMode, selectedText, arrays, selTimers,
                 docListeners, handleListeners>>

MouseDownOnHandle ==
  /\ IsHtml(doc) /\ handleListeners /\ selectedPrediction # <<>>
  /\ \E target \in DragTargets(selectedPrediction[1]), h \in HandleTypes :
       handleDragStart(target, h, HandleX)

\* a variant of handleDrag that makes the displayed text the candidate
handleDragLive(x) ==
  /\ drag # <<>>
  /\ drag' = <<[drag[1] EXCEPT !.clientX = x]>>
  /\ highlightedText' =
       <<[EmptySpan EXCEPT !.text = SubstringFrom(drag[1].spanText,
                                                  CharDiff(x - drag[1].initialX))]>>
  /\ UNCHANGED <<fnVars, appVars, domVars, selectedPrediction, activeSpan,
                 editMode, feedbackData, editPanelVisible,
                 selectionMode, selectedText, arrays, selTimers,
                 docListeners, handleListeners, bodyResizing>>

\* mousemove on the document: the text node of the element shows the new
\* text; the new offset is stored on a copy of originalSpanData, which is
\* dropped when the handler returns
handleDrag(x) ==
  /\ drag # <<>>
  /\ LET text == drag[1].spanText
         charDiff == CharDiff(x - drag[1].initialX)
         newStart == Max(0, Min(charDiff, Len(text) - 1))
         newEnd == Max(1, Min(Len(text), Len(text) - charDiff))
     IN  drag' = <<[drag[1] EXCEPT
                      !.clientX = x,
                      !.nodeValue = IF drag[1].handleType = "start"
                                    THEN SubstringFrom(text, newStart)
                                    ELSE Substring(text, 0, newEnd)]>>
  /\ UNCHANGED <<fnVars, appVars, domVars, selectedPrediction, activeSpan,
                 editMode, feedbackData, highlightedText, editPanelVisible,
                 selectionMode, selectedText, arrays, selTimers,
                 docListeners, handleListeners, bodyResizing>>

MouseMove ==
  /\ docListeners
  /\ \E x \in PointerXs : handleDrag(x)

\* selectedPrediction.evidence_spans.find(span => span.id === spanId): 0 if none
FindDraggedSpan(spans, spanId) ==
  LET hits == {i \in 1..Len(spans) : spans[i].id = spanId}
  IN  IF hits = {} THEN 0 ELSE CHOOSE i \in hits : \A j \in hits : i <= j

\* updatedSpan of handleDragEnd
UpdatedSpan(originalSpan, d) ==
  IF d.handleType = "start" /\ d.newStartOffset # UNum
  THEN [originalSpan EXCEPT
          !.relative_start = originalSpan.relative_start + d.newStartOffset,
          !.text = SubstringFrom(d.spanText, d.newStartOffset)]
  ELSE IF d.handleType = "end" /\ d.newEndOffset # UNum
  THEN [originalSpan EXCEPT
          !.relative_end = originalSpan.relative_start + d.newEndOffset,
          !.text = Substring(d.spanText, 0, d.newEndOffset)]
  ELSE originalSpan

\* mouseup on the document
handleDragEnd ==
  /\ drag # <<>>
  /\ LET spans == arrays[PredEvidenceRef(selectedPrediction[1])]
         i == FindDraggedSpan(spans, drag[1].spanId)
     IN  IF i > 0
         THEN /\ highlightedText' = <<UpdatedSpan(spans[i], drag[1])>>
              /\ editPanelVisible' = TRUE
         ELSE UNCHANGED <<highlightedText, editPanelVisible>>
  /\ drag' = <<>>
  /\ bodyResizing' = FALSE
  /\ UNCHANGED <<fnVars, appVars, domVars, selectedPrediction, activeSpan,
                 editMode, feedbackData,
                 selectionMode, selectedText, arrays, selTimers,
                 docListeners, handleListeners>>

MouseUp ==
  /\ docListeners /\ selectedPrediction # <<>>
  /\ handleDragEnd

Resizing ==
  \/ MouseDownOnHandle
  \/ MouseMove
  \/ MouseUp

(***************************************************************************)
(* Specifications.  The actions fall into groups: the review of a document *)
(* (cards, clicks, Edit Evidence, Apply, Cancel, the highlight timer, a    *)
(* new document), the metadata controls of the edit panel, free text       *)
(* selection with its deferred apply, submission with the host's handling  *)
(* of the promise, and the host's read-only switch.  Spec composes them    *)
(* all; the other specifications compose the review with one or two of the *)
(* groups, the remaining state staying as constructed.                     *)
(***************************************************************************)
Review ==
  \/ SelectCard
  \/ EditEvidence
  \/ ClickHighlight
  \/ ClickPlainSpan
  \/ HighlightTimerFires
  \/ Apply
  \/ Cancel
  \/ cycleExample

Metadata ==
  \/ ChangeType
  \/ ChangeField

Selection ==
  \/ SelectText
  \/ ClickEmailBody
  \/ SelectionTimerFires
  \/ ToggleSelection

Submission ==
  \/ SubmitFeedback
  \/ FeedbackResolved
  \/ FeedbackRejected
  \/ ClearNotification

Next == Review \/ Metadata \/ Selection \/ Submission \/ toggleReadOnly

Spec == Init /\ [][Next]_vars

\* the review with the metadata controls
SpecEdit == Init /\ [][Review \/ Metadata]_vars

\* the review with free text selection
SpecSelect == Init /\ [][Review \/ Selection]_vars

\* the review with submission to the host, handleSubmitFeedback being called
\* in any state, whether or not its button is shown and enabled
SpecSubmit == Init /\ [][Review \/ Submission \/ handleSubmitFeedback]_vars

\* the review with the host switching read-only
SpecReadOnly == Init /\ [][Review \/ toggleReadOnly]_vars

\* the review with applySpanEdit called in any state, whether or not its
\* button is shown and enabled
SpecApply == Init /\ [][Review \/ applySpanEdit]_vars

\* the review with the resize handles
SpecDrag == Init /\ [][Review \/ Resizing]_vars

\* one HTML document reviewed with free text selection: the cards, Edit
\* Evidence, clicks on highlights, the highlight timer, selections with
\* their deferred apply, and Apply
SpecReselect ==
  Init /\ [][SelectCard \/ EditEvidence \/ ClickHighlight
              \/ HighlightTimerFires \/ Apply \/ SelectText
              \/ SelectionTimerFires \/ ToggleSelection]_vars

(***************************************************************************)
(* The list edit of applySpanEdit applied again and again to the evidence  *)
(* list of one CorrectionRecord, the component being reviewed meanwhile so *)
(* that ActiveSpan takes its values.                                       *)
(***************************************************************************)
MaxEdits == 2        \* edits applied to the one list

\* the candidates applied: a clicked span with its text, a free selection
EditCandidates ==
  {[fn |-> "edit", candidate |-> c] :
     c \in {HtmlSpan("/html/body/p[1]", 4, 6, <<"a", "b">>, "intent", UStr, UStr),
            HtmlSpan(LiveWrapperPath \o "/p[1]", 2, 6, <<"c", "a", "b">>,
                     UStr, UStr, UStr)}}

InitAppend ==
  /\ Mounted
  /\ call \in {<<c>> : c \in EditCandidates}
  /\ result = <<>>

\* lines 545-601 of applySpanEdit on the evidence list of the record, which
\* starts as the list of the selected prediction
EditList ==
  /\ call # <<>> /\ call[1].fn = "edit"
  /\ selectedPrediction # <<>>
  /\ \E now \in Clock :
       LET list == IF result = <<>>
                   THEN arrays[PredEvidenceRef(selectedPrediction[1])]
                   ELSE result[1].spans
           edits == IF result = <<>> THEN 0 ELSE result[1].edits
       IN  /\ edits < MaxEdits
           /\ result' = <<[spans |-> EditedSpans(list, call[1].candidate, now),
                           edits |-> edits + 1]>>
  /\ UNCHANGED <<call, compVars>>

SpecAppend ==
  InitAppend /\ [][SelectCard \/ EditEvidence \/ ClickHighlight
                    \/ HighlightTimerFires \/ EditList]_vars

(***************************************************************************)
(* The plain-text renderer applied on its own to an email content and a    *)
(* list of flat evidence spans: all the fragments it returns, plain and    *)
(* highlighted, in order.                                                  *)
(***************************************************************************)
MaxPlainSpans == 2   \* longest list of flat spans rendered

\* the forEach of renderPlainTextWithSpans from span i on, lastIndex given,
\* and the remaining text after the last span
RECURSIVE FragmentsFrom(_, _, _, _, _)
FragmentsFrom(content, corrected, sorted, i, lastIndex) ==
  IF i > Len(sorted)
  THEN IF lastIndex < Len(content)
       THEN <<[highlight |-> FALSE, text |-> SubstringFrom(content, lastIndex)]>>
       ELSE <<>>
  ELSE (IF sorted[i].start > lastIndex
        THEN <<[highlight |-> FALSE,
                text |-> Substring(content, lastIndex, sorted[i].start)]>>
        ELSE <<>>)
       \o <<[highlight |-> TRUE,
             text |-> PlainSpanText(content, corrected, sorted[i])]>>
       \o FragmentsFrom(content, corrected, sorted, i + 1, sorted[i].end)

\* elements of renderPlainTextWithSpans
PlainFragments(content, spans, corrected) ==
  FragmentsFrom(content, corrected, SortByStart(spans), 1, 0)

\* the flat spans of a content: every start <= end within it
FlatSpans(content) ==
  {FlatSpan(r[1], r[2], Substring(content, r[1], r[2]), "intent", UStr) :
     r \in {q \in (0..Len(content)) \X (0..Len(content)) : q[1] <= q[2]}}

FlatLists(content, n) == UNION {[1..k -> FlatSpans(content)] : k \in 0..n}

\* the calls: a span list, overlapping and nested spans included
RenderCalls(content, n) ==
  {[fn |-> "render", spans |-> l] : l \in FlatLists(content, n)}

InitRender ==
  /\ Mounted
  /\ call \in {<<c>> : c \in RenderCalls(Content(2), MaxPlainSpans)}
  /\ result = <<>>

\* renderPlainTextWithSpans for the content of the plain-text document and a
\* prediction without a CorrectionRecord
Render ==
  /\ call # <<>> /\ call[1].fn = "render"
  /\ result = <<>>
  /\ result' = <<[fragments |->
                    PlainFragments(Content(2), call[1].spans, <<>>)]>>
  /\ UNCHANGED <<compVars, call>>

SpecRender == InitRender /\ [][Render]_vars

(***************************************************************************)
(* The mouseup listener applied to every range of the text nodes of the    *)
(* HTML document, in a component brought to selection mode.                *)
(***************************************************************************)
\* every range of the document: its start is not after its end
AllRanges(d) ==
  {r \in [sn : 1..Len(TextNodes(d)), so : 0..Len(ConcatTexts(TextNodes(d), 1, 1)),
          en : 1..Len(TextNodes(d)), eo : 0..Len(ConcatTexts(TextNodes(d), 1, 1))] :
     /\ r.so <= Len(TextNodes(d)[r.sn].text)
     /\ r.eo <= Len(TextNodes(d)[r.en].text)
     /\ r.sn <= r.en
     /\ r.sn = r.en => r.so <= r.eo}

RangeCalls(d) == {[fn |-> "select", range |-> r] : r \in AllRanges(d)}

InitRanges ==
  /\ Mounted
  /\ call \in {<<c>> : c \in RangeCalls(1)}
  /\ result = <<>>

\* mouseup in the email body with the range of the call selected
MouseUpOnRange ==
  /\ call # <<>> /\ call[1].fn = "select"
  /\ IsHtml(doc) /\ selectionMode
  /\ handleMouseUp(call[1].range)
  /\ selectionMode' = handleTextSelection
  /\ result' = <<[selection |-> SelectionOf(doc, call[1].range)]>>
  /\ UNCHANGED <<call, appVars, selectedPrediction, activeSpan, editMode,
                 feedbackData, highlightedText, editPanelVisible, arrays>>
  /\ RunEffects(FALSE)

SpecRanges ==
  InitRanges /\ [][SelectCard \/ EditEvidence \/ ClickHighlight
                    \/ HighlightTimerFires \/ ToggleSelection
                    \/ MouseUpOnRange]_vars

(***************************************************************************)
(* The Text Locator applied on its own to a text node content and a span   *)
(* with declared offsets and text, drawn from bounded sets.                *)
(***************************************************************************)
Alphabet == {"a", "b", " "}
MaxTextLen == 3
MaxSpanLen == 2

Texts(n) == UNION {[1..k -> Alphabet] : k \in 0..n}

\* the calls with a text node of up to n characters and a span text of up
\* to m, the declared offsets absent (UNum), inside the node or beyond it
LocatorCalls(n, m) ==
  {[fn |-> "locate", textContent |-> tc,
    span |-> [EmptySpan EXCEPT !.relative_start = rs, !.relative_end = re,
                               !.text = tx]] :
     tc \in Texts(n), tx \in Texts(m), rs \in UNum..n, re \in UNum..(n + 1)}

InitLocate ==
  /\ Mounted
  /\ call \in {<<c>> : c \in LocatorCalls(MaxTextLen, MaxSpanLen)}
  /\ result = <<>>

\* lines 299-349 of applyHighlights for one text node and one span: the
\* range, and whether the span is skipped for invalid positions
Locate ==
  /\ call # <<>> /\ call[1].fn = "locate"
  /\ result = <<>>
  /\ result' =
       <<[range |-> LocateRange(call[1].textContent, call[1].span),
          skipped |-> Degenerate(call[1].textContent,
                                 LocateRange(call[1].textContent,
                                             call[1].span))]>>
  /\ UNCHANGED <<compVars, call>>

SpecLocate == InitLocate /\ [][Locate]_vars

(***************************************************************************)
(* The XPath resolver of applyHighlights applied on its own to a live page *)
(* and a captured path.  An element is its path from the document node, a  *)
(* sequence of steps [tag, idx]; idx 0 in an expression is a step without  *)
(* a position predicate.                                                   *)
(***************************************************************************)
Step(t, i) == [tag |-> t, idx |-> i]

\* the live page around the email: html, body, the host element and in it
\* the wrapper div that the highlight effect inserts
PageBody == <<Step("html", 1), Step("body", 1)>>
Wrapper == PageBody \o <<Step("div", 1), Step("div", 1)>>

\* every element a page may hold besides those, in document order: a p of
\* the page itself, and under the wrapper a p, a div and a table whose cell
\* sits under a tbody (as the HTML parser builds it) or directly under a tr
ElementOrder ==
  << PageBody \o <<Step("p", 1)>>,
     Wrapper \o <<Step("p", 1)>>,
     Wrapper \o <<Step("div", 1)>>,
     Wrapper \o <<Step("table", 1), Step("tbody", 1), Step("tr", 1),
                  Step("td", 1)>>,
     Wrapper \o <<Step("table", 1), Step("tr", 1), Step("td", 1)>> >>

\* text of the first text node of an element
ElementText(e) ==
  IF e[Len(e)].tag = "p" THEN <<"a", "b">>
  ELSE IF e[Len(e)].tag = "td"
    THEN IF e[Len(e) - 2].tag = "tbody" THEN <<"a", "b">> ELSE <<"c", "d">>
  ELSE <<>>

Prefixes(e) == {SubSeq(e, 1, k) : k \in 1..Len(e)}

\* the pages: the elements of each, ancestors included
Pages ==
  {UNION {Prefixes(ElementOrder[i]) : i \in S} \cup Prefixes(Wrapper) :
     S \in SUBSET (1..Len(ElementOrder))}

\* an XPath expression: a location path (absolute or relative), '.', the
\* empty string, or one of the two table patterns
NoExpr == [kind |-> "empty", abs |-> FALSE, steps |-> <<>>, text |-> <<>>,
           tr |-> 0, td |-> 0]
PathExpr(abs, steps) == [NoExpr EXCEPT !.kind = "path", !.abs = abs,
                                       !.steps = steps]
SelfExpr == [NoExpr EXCEPT !.kind = "self"]
CellTextExpr(text) == [NoExpr EXCEPT !.kind = "cellText", !.text = text]
CellExpr(tr, td) == [NoExpr EXCEPT !.kind = "cell", !.tr = tr, !.td = td]

\* a path as written: '' for an absolute path with no step
Written(abs, steps) ==
  IF abs /\ steps = <<>> THEN NoExpr ELSE PathExpr(abs, steps)

\* xpath.startsWith('/html/body'), xpath.startsWith('/html')
StartsWithHtml(x) ==
  x.abs /\ Len(x.steps) >= 1 /\ x.steps[1] = Step("html", 0)
StartsWithHtmlBody(x) ==
  StartsWithHtml(x) /\ Len(x.steps) >= 2 /\ x.steps[2] = Step("body", 0)

\* xpath.includes('table')
IncludesTable(x) == \E i \in 1..Len(x.steps) : x.steps[i].tag = "table"

\* /tr\[(\d+)\]\/td\[(\d+)\]/.test(xpath)
CellSteps(x) ==
  {i \in 1..(Len(x.steps) - 1) :
     /\ x.steps[i].tag = "tr" /\ x.steps[i].idx > 0
     /\ x.steps[i + 1].tag = "td" /\ x.steps[i + 1].idx > 0}

\* xpath.match(/tr\[(\d+)\]/)[1] and xpath.match(/td\[(\d+)\]/)[1]: the
\* index of the first such step
FirstIndexed(x, tag) ==
  LET at == {i \in 1..Len(x.steps) :
               x.steps[i].tag = tag /\ x.steps[i].idx > 0}
  IN  x.steps[CHOOSE i \in at : \A j \in at : i <= j].idx

\* [...new Set(xpathVariations)]
RECURSIVE Dedup(_)
Dedup(seq) ==
  IF seq = <<>> THEN <<>>
  ELSE LET front == Dedup(SubSeq(seq, 1, Len(seq) - 1))
           last == seq[Len(seq)]
       IN  IF \E i \in 1..Len(front) : front[i] = last THEN front
           ELSE Append(front, last)

\* xpathVariations for the captured path x of a span with the given text
XPathVariations(x, text) ==
  LET stripped == IF StartsWithHtmlBody(x)
                  THEN SubSeq(x.steps, 3, Len(x.steps)) ELSE x.steps
      forBody ==
        IF StartsWithHtmlBody(x)
        THEN <<Written(TRUE, stripped)>>
               \o (IF IncludesTable(x)
                   THEN <<CellTextExpr(text)>>
                          \o (IF CellSteps(x) # {}
                              THEN <<CellExpr(FirstIndexed(x, "tr"),
                                              FirstIndexed(x, "td"))>>
                              ELSE <<>>)
                   ELSE <<>>)
        ELSE <<>>
      forHtml ==
        IF StartsWithHtml(x)
        THEN <<Written(TRUE, SubSeq(x.steps, 2, Len(x.steps)))>>
        ELSE <<>>
      simplePath ==
        IF StartsWithHtmlBody(x)
        THEN IF stripped = <<>> THEN SelfExpr ELSE PathExpr(FALSE, stripped)
        ELSE PathExpr(FALSE, x.steps)
  IN  Dedup(forBody \o forHtml \o <<simplePath, Written(x.abs, x.steps)>>)

\* a step of an expression matches a step of an element
StepMatches(s, e) == s.tag = e.tag /\ (s.idx = 0 \/ s.idx = e.idx)

PathMatches(steps, e) ==
  /\ Len(steps) = Len(e)
  /\ \A i \in 1..Len(steps) : StepMatches(steps[i], e[i])

IsUnder(e, ctx) == Len(e) > Len(ctx) /\ SubSeq(e, 1, Len(ctx)) = ctx

\* the first in document order of a set of elements of the page, <<>> when
\* the set is empty
FirstNode(hits) ==
  IF hits = {} THEN <<>>
  ELSE IF \E e \in hits : \A i \in 1..Len(ElementOrder) : ElementOrder[i] # e
    THEN CHOOSE e \in hits : \A f \in hits : Len(e) <= Len(f)
  ELSE LET at == {i \in 1..Len(ElementOrder) : ElementOrder[i] \in hits}
       IN  ElementOrder[CHOOSE i \in at : \A j \in at : i <= j]

\* document.evaluate(expr, ctx, ..., FIRST_ORDERED_NODE_TYPE).singleNodeValue
\* with ctx the wrapper element or the document node (<<>>); an absolute
\* path and a path starting with // are evaluated from the document node
\* whatever ctx is; '' throws, which the loop catches
Evaluate(page, expr, ctx) ==
  CASE expr.kind = "empty" -> <<>>
    [] expr.kind = "self" -> ctx
    [] expr.kind = "path" ->
         FirstNode({e \in page :
                      IF expr.abs THEN PathMatches(expr.steps, e)
                      ELSE /\ IsUnder(e, ctx)
                           /\ PathMatches(expr.steps,
                                          SubSeq(e, Len(ctx) + 1, Len(e)))})
    [] expr.kind = "cellText" ->
         FirstNode({e \in page :
                      /\ e[Len(e)].tag = "td"
                      /\ \E i, j \in 1..Len(e) :
                           /\ i < j /\ j < Len(e)
                           /\ e[i].tag = "table" /\ e[j].tag = "tr"
                      /\ Includes(ElementText(e), expr.text)})
    [] expr.kind = "cell" ->
         FirstNode({e \in page :
                      /\ Len(e) >= 3
                      /\ e[Len(e) - 2].tag = "table"
                      /\ e[Len(e) - 1] = Step("tr", expr.tr)
                      /\ e[Len(e)] = Step("td", expr.td)})

\* one turn of the loop over the variations: in the wrapper first, then in
\* the entire document
EvaluateBoth(page, expr) ==
  IF Evaluate(page, expr, Wrapper) # <<>> THEN Evaluate(page, expr, Wrapper)
  ELSE Evaluate(page, expr, <<>>)

\* targetNode after the loop: the node of the first variation that gives
\* one, <<>> when none does
RECURSIVE FirstMatch(_, _, _)
FirstMatch(page, exprs, i) ==
  IF i > Len(exprs) THEN <<>>
  ELSE IF EvaluateBoth(page, exprs[i]) # <<>>
    THEN EvaluateBoth(page, exprs[i])
  ELSE FirstMatch(page, exprs, i + 1)

TargetNode(page, x, text) == FirstMatch(page, XPathVariations(x, text), 1)

\* captured paths: of a p, a div and a table cell of the email, of the body,
\* the live path of the wrapper's p, and a relative path
CapturedPaths ==
  LET Body == <<Step("html", 0), Step("body", 0)>>
  IN  {[abs |-> TRUE, steps |-> Body \o <<Step("p", 1)>>],
       [abs |-> TRUE, steps |-> Body \o <<Step("div", 1)>>],
       [abs |-> TRUE, steps |-> Body \o <<Step("table", 1), Step("tr", 1),
                                          Step("td", 1)>>],
       [abs |-> TRUE, steps |-> Body],
       [abs |-> TRUE, steps |-> Body \o <<Step("div", 1), Step("div", 1),
                                          Step("p", 1)>>],
       [abs |-> FALSE, steps |-> <<Step("p", 1)>>]}

SpanTexts == {<<"a", "b">>, <<"c", "d">>, <<"z">>}

ResolverCalls ==
  {[fn |-> "resolve", page |-> pg, xpath |-> x, text |-> tx] :
     pg \in Pages, x \in CapturedPaths, tx \in SpanTexts}

InitResolve ==
  /\ Mounted
  /\ call \in {<<c>> : c \in ResolverCalls}
  /\ result = <<>>

\* lines 160-260 of applyHighlights for one span
Resolve ==
  /\ call # <<>> /\ call[1].fn = "resolve"
  /\ result = <<>>
  /\ result' = <<[node |-> TargetNode(call[1].page, call[1].xpath,
                                      call[1].text)]>>
  /\ UNCHANGED <<compVars, call>>

SpecResolve == InitResolve /\ [][Resolve]_vars

(***************************************************************************)
(* applyHighlights applied on its own to the wrapper of the HTML document  *)
(* and a list of evidence spans, together with the XPath resolution of one *)
(* span.                                                                   *)
(***************************************************************************)
MaxListLen == 3

\* spans of the HTML document: three that can be located, two of them in
\* the same node with disjoint ranges, one whose path
\* matches nothing, one without a path, one whose node has only blank text,
\* one with declared offsets the wrong way round and no text
SpanSamples ==
  {HtmlSpan("/html/body/p[1]", 4, 6, <<"a", "b">>, "intent", UStr, UStr),
   HtmlSpan("/html/body/p[2]", 0, 2, <<"x", "y">>, "action", UStr, UStr),
   HtmlSpan("/html/body/p[2]", 2, 3, <<"z">>, "intent", UStr, UStr),
   HtmlSpan("/html/body/table[1]/tr[1]/td[1]", 0, 2, <<"y", "z">>, "action",
            UStr, UStr),
   HtmlSpan(UStr, 0, 2, <<"x", "y">>, "intent", UStr, UStr),
   HtmlSpan("/html/body/p[3]", 0, 1, NoText, "intent", UStr, UStr),
   HtmlSpan("/html/body/p[2]", 2, 1, NoText, "intent", UStr, UStr)}

SpanLists(n) == UNION {[1..k -> SpanSamples] : k \in 0..n}

HighlightCalls(n) == {[fn |-> "highlight", spans |-> l] : l \in SpanLists(n)}

InitHighlight ==
  /\ Mounted
  /\ call \in {<<c>> : c \in HighlightCalls(MaxListLen) \cup ResolverCalls}
  /\ result = <<>>

\* applyHighlights(wrapperDiv, spans): the elements it creates
Highlight ==
  /\ call # <<>> /\ call[1].fn = "highlight"
  /\ result = <<>>
  /\ result' = <<[els |-> ApplyHighlights(1, call[1].spans)]>>
  /\ UNCHANGED <<compVars, call>>

SpecHighlight == InitHighlight /\ [][Highlight \/ Resolve]_vars

(***************************************************************************)
(* Properties of the Correction Ledger.                                    *)
(***************************************************************************)
\* an Apply whose ActiveSpan is an evidence span S of the selected prediction
EditOfSpan == Apply /\ activeSpan.kind = "span"

\* the same, when the prediction already has a CorrectionRecord
ReEditOfSpan == EditOfSpan /\ feedbackData[selectedPrediction[1]] # <<>>

\* C1: an edit that targets an original evidence span S of a prediction that
\* already has a record updates the entry of S: the evidence list of the
\* record has as many entries after the edit as before, so that it never
\* grows when the same S is edited again.
C1_ListNeverGrows ==
  [][ReEditOfSpan =>
       Len(RecordList(selectedPrediction[1])') =
         Len(RecordList(selectedPrediction[1]))]_vars

\* entry e carries the values of candidate c
CarriesValues(e, c) ==
  /\ e.xpath = c.xpath
  /\ e.relative_start = c.relative_start
  /\ e.relative_end = c.relative_end
  /\ e.start = c.start
  /\ e.end = c.end
  /\ e.text = c.text
  /\ e.type = c.type
  /\ e.field = c.field

\* C2: after a second edit of the same span S with candidate c2, the record
\* holds an entry with c2's values, and every other entry is one the list
\* held before the first edit of S (an original span of the prediction): the
\* entry with the first candidate's values is gone.
C2_SecondEditReplacesFirst ==
  [][ReEditOfSpan =>
       LET p == selectedPrediction[1]
           c2 == highlightedText[1]
           after == RecordList(p)'
       IN  /\ \E i \in 1..Len(after) : CarriesValues(after[i], c2)
           /\ \A i \in 1..Len(after) :
                \/ CarriesValues(after[i], c2)
                \/ \E j \in 1..Len(InputEvidence(p)) :
                     /\ j # activeSpan.idx
                     /\ after[i] = InputEvidence(p)[j]]_vars

\* entry e refers back to the original span s
RefersBackTo(e, s) ==
  IF IsHtml(doc)
  THEN /\ e.original_xpath = s.xpath
       /\ e.original_relative_start = s.relative_start
       /\ e.original_relative_end = s.relative_end
  ELSE /\ e.original_start = s.start
       /\ e.original_end = s.end

\* C3: every edit of an existing evidence span S, the first one included,
\* leaves in the record an entry that carries the back-reference to S
\* (original_xpath and original relative offsets, or original_start and
\* original_end).
C3_BackReferenceFromFirstEdit ==
  [][EditOfSpan =>
       \E i \in 1..Len(RecordList(selectedPrediction[1])') :
         RefersBackTo(RecordList(selectedPrediction[1])'[i],
                      activeSpan.span)]_vars

\* the original_ properties
BackReferenceFields == {"original_xpath", "original_relative_start",
                        "original_relative_end", "original_start",
                        "original_end"}

\* C4: applySpanEdit called with a prediction selected, a candidate pending
\* and no ActiveSpan appends one span to the evidence list of the record, the
\* entries before it staying as they were, and the appended span has none of
\* the original_ properties.
C4_NewSpanHasNoBackReference ==
  [][(applySpanEdit /\ activeSpan.kind = "null"
        /\ selectedPrediction # <<>> /\ highlightedText # <<>>) =>
       LET before == RecordList(selectedPrediction[1])
           after == RecordList(selectedPrediction[1])'
       IN  /\ Len(after) = Len(before) + 1
           /\ SubSeq(after, 1, Len(before)) = before
           /\ \A f \in BackReferenceFields : ~Has(after[Len(after)], f)]_vars

\* a record holds a span added without an ActiveSpan
C4_Witness ==
  \E p \in PIDs :
    /\ feedbackData[p] # <<>>
    /\ \E i \in 1..Len(RecordList(p)) :
         RecordList(p)[i].id \in {"new-" \o ToString(n) : n \in Clock}

\* C5: whatever edits are applied, the evidence_spans of every prediction of
\* the input stay as supplied: the edits are recorded on the record's copy.
C5_PredictionEvidenceUnchanged ==
  \A p \in PIDs : arrays[PredEvidenceRef(p)] = InputEvidence(p)

\* an edit has been recorded that makes the record's list differ from the
\* prediction's
C5_Witness ==
  \E p \in PIDs :
    /\ feedbackData[p] # <<>>
    /\ RecordList(p) # InputEvidence(p)

(***************************************************************************)
(* Properties of submission.                                               *)
(***************************************************************************)
\* C6: when the host's handling of a submission fails (the promise of
\* submitFeedback rejects), the ledger afterwards holds what was handed
\* over: it is emptied only by a submission the sink accepted.
C6_LedgerKeptOnFailure ==
  [][FeedbackRejected =>
       \E i \in 1..Len(inFlight) :
         LedgerValue(feedbackData', arrays') = inFlight[i]]_vars

\* C7: whenever the sink is called it is called once, with the entire ledger
\* of that moment, and the ledger is not empty; handleSubmitFeedback called
\* with an empty ledger changes no state.
C7_WholeLedgerInOneCall ==
  [][/\ Len(inFlight') > Len(inFlight) =>
          /\ LedgerKeys # {}
          /\ inFlight' = Append(inFlight, LedgerValue(feedbackData, arrays))
     /\ (handleSubmitFeedback /\ LedgerKeys = {}) => UNCHANGED vars]_vars

\* a ledger with a record whose list differs from the prediction's has been
\* handed to the sink
C7_Witness ==
  \E i \in 1..Len(inFlight) : \E p \in PIDs :
    /\ inFlight[i][p] # <<>>
    /\ inFlight[i][p][1].evidence_spans # InputEvidence(p)

(***************************************************************************)
(* Properties of the Interaction Controller.                               *)
(***************************************************************************)
\* C8: a change of the document takes the controller to Viewing from any
\* state: no prediction selected, edit mode off, selection mode off, no
\* ActiveSpan, and the ledger empty.
C8_DocumentChangeResets ==
  [][doc' # doc =>
       /\ selectedPrediction' = <<>>
       /\ ~editMode'
       /\ ~selectionMode'
       /\ activeSpan' = NullActive
       /\ feedbackData' = EmptyLedger]_vars

\* C9: ActiveSpan is null right after a card selection, right after a
\* submission and right after Cancel.
C9_ActiveSpanCleared ==
  [][(SelectCard \/ SubmitFeedback \/ Cancel) =>
       activeSpan' = NullActive]_vars

\* entry e holds every value the candidate c defines
RecordsCandidate(e, c) ==
  \A f \in {"xpath", "relative_start", "relative_end", "start", "end",
             "text", "type", "field"} : Has(c, f) => e[f] = c[f]

\* C10: Apply records the candidate in the record of the selected prediction
\* and leaves the controller in Selected: the prediction stays selected,
\* edit mode and selection mode are off, no ActiveSpan, no candidate pending.
C10_ApplyLeadsToSelected ==
  [][Apply =>
       /\ \E i \in 1..Len(RecordList(selectedPrediction[1])') :
            RecordsCandidate(RecordList(selectedPrediction[1])'[i],
                             highlightedText[1])
       /\ selectedPrediction' = selectedPrediction
       /\ ~editMode'
       /\ ~selectionMode'
       /\ activeSpan' = NullActive
       /\ highlightedText' = <<>>]_vars

\* C11: Cancel leaves the ledger as it was, discards the pending candidate,
\* turns edit mode and selection mode off and keeps the same prediction
\* selected.
C11_CancelDiscardsCandidate ==
  [][Cancel =>
       /\ LedgerValue(feedbackData', arrays') = LedgerValue(feedbackData, arrays)
       /\ highlightedText' = <<>>
       /\ ~editMode'
       /\ ~selectionMode'
       /\ selectedPrediction # <<>>
       /\ selectedPrediction' = selectedPrediction]_vars

\* an edit has been cancelled while the ledger holds a record: the span is
\* still the ActiveSpan, edit mode is off
C11_Witness ==
  /\ LedgerKeys # {}
  /\ selectedPrediction # <<>>
  /\ activeSpan.kind = "span"
  /\ ~editMode
  /\ ~selectionMode
  /\ highlightedText = <<>>

\* the deferred apply of the one completed selection runs while the
\* controller is in Selecting with a candidate pending
DeferredApplyInSelecting ==
  /\ SelectionTimerFires
  /\ Len(selTimers) = 1
  /\ selectedText # <<>>
  /\ selectionMode
  /\ editMode
  /\ activeSpan.kind = "span"
  /\ highlightedText # <<>>

\* C12: in Selecting, once the deferred apply of a completed non-collapsed
\* selection has run, selection mode is off, edit mode is on and the pending
\* candidate holds the selection's text, xpath, start offset and end offset.
C12_SelectionBecomesCandidate ==
  [][DeferredApplyInSelecting =>
       /\ ~selectionMode'
       /\ editMode'
       /\ highlightedText' # <<>>
       /\ highlightedText'[1].text = selectedText[1].text
       /\ highlightedText'[1].xpath = selectedText[1].xpath
       /\ highlightedText'[1].relative_start = selectedText[1].startOffset
       /\ highlightedText'[1].relative_end = selectedText[1].endOffset]_vars

\* the Selected state: a prediction is selected and edit mode is off
InSelected == selectedPrediction # <<>> /\ ~editMode

\* C13: in Selected, a click on a highlighted evidence span (HTML or plain
\* text) changes neither edit mode nor ActiveSpan, and only "Edit Evidence"
\* takes the controller from Selected to Editing.
C13_EvidenceReadOnlyInSelected ==
  [][InSelected =>
       /\ (ClickHighlight \/ ClickPlainSpan) =>
             (editMode' = editMode /\ activeSpan' = activeSpan)
       /\ editMode' => EditEvidence]_vars

\* C14: Selecting is nested under Editing: whenever selection mode is on,
\* edit mode is on and a prediction is selected.
C14_SelectingNestedInEditing ==
  selectionMode => (editMode /\ selectedPrediction # <<>>)

\* C15: once edit mode has been left no pending candidate remains, and a
\* deferred selection apply that runs outside edit mode sets no candidate,
\* re-enters no mode and leaves the ledger alone.
C15_NothingSurvivesLeaving ==
  [][/\ (editMode /\ ~editMode') => highlightedText' = <<>>
     /\ (~editMode /\ SelectionTimerFires) =>
           /\ highlightedText' = highlightedText
           /\ ~editMode' /\ ~selectionMode'
           /\ LedgerValue(feedbackData', arrays')
                = LedgerValue(feedbackData, arrays)]_vars

\* C16: while readOnly is true no step enters edit mode, sets ActiveSpan,
\* sets a pending candidate or changes the ledger, also when readOnly became
\* true in the middle of an edit.
C16_ReadOnlyFreezesEditing ==
  [][(readOnly /\ readOnly') =>
       /\ editMode' => editMode
       /\ activeSpan' \in {activeSpan, NullActive}
       /\ highlightedText' \in {highlightedText, <<>>}
       /\ LedgerValue(feedbackData', arrays')
            = LedgerValue(feedbackData, arrays)]_vars

\* C17: the HTML content held by the live document is the output of the
\* sanitization step, in every state and in read-only mode as well.
C17_LiveHtmlSanitized ==
  IsHtml(doc) => bodyContent.nodes = Sanitize(RawHtml(doc))

\* the Text Locator has returned for the call
Located == result # <<>> /\ call[1].fn = "locate"

\* the declared offsets of the call's span are valid for its text node and
\* the span's text is the text between them
DeclaredExact ==
  LET tc == call[1].textContent
      sp == call[1].span
  IN  /\ 0 <= sp.relative_start
      /\ sp.relative_start < sp.relative_end
      /\ sp.relative_end <= Len(tc)
      /\ sp.text = SubSeq(tc, sp.relative_start + 1, sp.relative_end)

\* C18: for a span whose declared offsets are valid and whose text is the
\* text between them, the located range is exactly the declared one, also
\* when the same text occurs earlier in the node.
C18_DeclaredRangeReturned ==
  (Located /\ DeclaredExact) =>
     /\ ~result[1].skipped
     /\ result[1].range
          = <<call[1].span.relative_start, call[1].span.relative_end>>

\* position p is the first place where text tx occurs in tc
FirstOccurrence(tc, tx, p) ==
  /\ p \in 0..(Len(tc) - Len(tx))
  /\ SubSeq(tc, p + 1, p + Len(tx)) = tx
  /\ \A q \in 0..(p - 1) : SubSeq(tc, q + 1, q + Len(tx)) # tx

\* the call's span has a non-empty text that occurs verbatim in the node
OccursVerbatim ==
  /\ call[1].span.text # NoText
  /\ \E p \in 0..Len(call[1].textContent) :
       FirstOccurrence(call[1].textContent, call[1].span.text, p)

\* C19: for a span with non-empty text that occurs verbatim in the node,
\* the located range is that of the first occurrence of the text, whatever
\* the declared offsets are.
C19_FirstOccurrenceLocated ==
  (Located /\ OccursVerbatim) =>
     /\ ~result[1].skipped
     /\ FirstOccurrence(call[1].textContent, call[1].span.text,
                        result[1].range[1])
     /\ result[1].range[2] = result[1].range[1] + Len(call[1].span.text)

\* located at the first occurrence although valid declared offsets point at
\* a later occurrence of the same text
C19_Witness ==
  /\ Located /\ OccursVerbatim /\ DeclaredExact
  /\ result[1].range[1] < call[1].span.relative_start

\* the resolver has returned for a captured path that starts at /html/body
ResolvedCaptured ==
  /\ result # <<>> /\ call[1].fn = "resolve"
  /\ StartsWithHtmlBody(call[1].xpath)

\* the node the variant gives, a match under the rendering root being
\* preferred over a match in the whole document
VariantNode(abs, steps) ==
  EvaluateBoth(call[1].page, Written(abs, steps))

\* C20: the resolver uses the node of the highest-priority matching variant
\* in the order exact path, root-stripped path, body-stripped path, for
\* each variant preferring a match under the rendering root, and stops at
\* the first match.
C20_ExactPathFirst ==
  ResolvedCaptured =>
    LET x == call[1].xpath.steps
        exact == VariantNode(TRUE, x)
        rootStripped == VariantNode(TRUE, SubSeq(x, 2, Len(x)))
        bodyStripped == VariantNode(TRUE, SubSeq(x, 3, Len(x)))
    IN  IF exact # <<>> THEN result[1].node = exact
        ELSE IF rootStripped # <<>> THEN result[1].node = rootStripped
        ELSE bodyStripped # <<>> => result[1].node = bodyStripped

\* applyHighlights has returned for the call's list of spans
Highlighted == result # <<>> /\ call[1].fn = "highlight"

\* the span cannot be highlighted in the HTML document whatever came before
\* it: its path is missing or matches nothing, its node has no text node
\* that is not blank, or its located range is degenerate
Unlocatable(span) ==
  \/ ResolveXPath(1, span.xpath) = 0
  \/ LET tc == Nodes(1)[ResolveXPath(1, span.xpath)].text
     IN  \/ Trim(tc) = <<>>
         \/ /\ span.text = NoText
            /\ Max(0, span.relative_start) >= span.relative_end

\* what an element shows: its text, type and field
Shown(els) ==
  [i \in 1..Len(els) |-> [spanText |-> els[i].spanText,
                          spanType |-> els[i].spanType,
                          fieldName |-> els[i].fieldName]]

\* a variation before position j of the list throws when evaluated
ThrowsBefore(exprs, j) == \E i \in 1..(j - 1) : exprs[i].kind = "empty"

\* C21: a span whose path is malformed or matches nothing, that has no
\* non-empty text node or whose located range is degenerate produces no
\* highlight, every other span of the list is processed as if the span
\* were not in the list, and a variation that throws does not stop the
\* later variations from being tried.
C21_BadSpanSkipped ==
  /\ Highlighted =>
       LET spans == call[1].spans
           bad == {i \in 1..Len(spans) : Unlocatable(spans[i])}
           others == SelectSeq(spans, LAMBDA sp : ~Unlocatable(sp))
       IN  /\ \A k \in 1..Len(result[1].els) : \A i \in bad :
                 result[1].els[k].spanId # SpanIdOf(spans[i], i - 1)
           /\ Shown(result[1].els) = Shown(ApplyHighlights(1, others))
  /\ (result # <<>> /\ call[1].fn = "resolve") =>
       LET exprs == XPathVariations(call[1].xpath, call[1].text)
       IN  \A j \in 1..Len(exprs) :
             (ThrowsBefore(exprs, j)
                /\ EvaluateBoth(call[1].page, exprs[j]) # <<>>)
               => result[1].node # <<>>

\* a list whose first span is skipped and whose last span is highlighted
C21_Witness ==
  /\ Highlighted
  /\ Len(call[1].spans) = MaxListLen
  /\ Unlocatable(call[1].spans[1])
  /\ ~Unlocatable(call[1].spans[MaxListLen])
  /\ \E k \in 1..Len(result[1].els) :
       result[1].els[k].spanId = "span-" \o ToString(MaxListLen - 1)

C23_PlainSpansRendered ==
  (~IsHtml(doc) /\ selectedPrediction # <<>>) =>
     LET spans == InputEvidence(selectedPrediction[1])
     IN  /\ Len(renderPlainTextWithSpans) = Len(spans)
         /\ \A i \in 1..Len(spans) :
              \E j \in 1..Len(renderPlainTextWithSpans) :
                 /\ renderPlainTextWithSpans[j].key = <<spans[i].start, spans[i].end>>
                 /\ renderPlainTextWithSpans[j].text =
                      Substring(Content(doc), spans[i].start, spans[i].end)

C23_Witness ==
  /\ ~IsHtml(doc) /\ selectedPrediction = <<"P3">>
  /\ feedbackData["P3"] # <<>>
  /\ activeSpan.kind = "null"
  /\ Len(renderPlainTextWithSpans) = 1
  /\ renderPlainTextWithSpans[1].text = <<"a", "b">>

\* a step that releases a drag: the mouseup that handleDragEnd handles
DragReleased ==
  /\ drag # <<>> /\ drag' = <<>>
  /\ UNCHANGED <<doc, selectedPrediction, editMode, readOnly>>

\* the character delta of the pointer at this moment of the drag
DragDelta == CharDiff(drag[1].clientX - drag[1].initialX)

\* the evidence span whose element is being dragged
DraggedSpan ==
  LET spans == arrays[PredEvidenceRef(selectedPrediction[1])]
  IN  spans[FindOriginalSpan(spans, drag[1].spanId)]

\* C24: releasing a drag of the end handle moved by k characters leaves a
\* pending span whose relative_end is the original one plus k and whose text
\* is k characters longer; releasing a drag of the start handle moves
\* relative_start and the text on the left by the delta likewise
C24_DragMovesOffsets ==
  [][(DragReleased /\ DragDelta # 0) =>
       /\ highlightedText' # <<>>
       /\ IF drag[1].handleType = "end"
          THEN /\ highlightedText'[1].relative_end =
                    DraggedSpan.relative_end + DragDelta
               /\ Len(highlightedText'[1].text) =
                    Len(DraggedSpan.text) + DragDelta
          ELSE /\ highlightedText'[1].relative_start =
                    DraggedSpan.relative_start + DragDelta
               /\ Len(highlightedText'[1].text) =
                    Len(DraggedSpan.text) - DragDelta]_vars

\* a pointer move during a drag: the step handleDrag takes
DragMoved == drag # <<>> /\ drag' # <<>> /\ drag' # drag

\* C25: between the start of a drag and its release a pointer move changes
\* only the displayed text of the dragged element: the pending candidate,
\* the active span, edit mode and the ledger are as before the move
C25_DragMovesOnlyDisplay ==
  [][DragMoved =>
       UNCHANGED <<highlightedText, activeSpan, editMode, editPanelVisible,
                   feedbackData, arrays>>]_vars

C25_Witness ==
  /\ drag # <<>>
  /\ drag[1].nodeValue # drag[1].spanText
  /\ highlightedText # <<>>
  /\ LedgerKeys # {}

\* C26: a drag released with no net change (zero character delta) leaves the
\* pending candidate, the edit panel and the ledger as they were
C26_IdleReleaseIsNoOp ==
  [][(DragReleased /\ DragDelta = 0) =>
       UNCHANGED <<highlightedText, editPanelVisible, feedbackData,
                   arrays>>]_vars

\* C27: the document-level mousemove and mouseup listeners of the component
\* are registered only between the start of a handle drag and its release,
\* and outside a drag the body does not carry the class 'resizing-evidence'
C27_DocumentListenersOnlyInDrag ==
  /\ docListeners => drag # <<>>
  /\ bodyResizing => drag # <<>>

\* the spans stored in the correction records
StoredSpans ==
  UNION {{arrays[feedbackData[p][1].evidence_ref][i] :
            i \in 1..Len(arrays[feedbackData[p][1].evidence_ref])} :
         p \in LedgerKeys}

\* start <= end, on the relative offsets for a structural span
Ordered(s) ==
  IF s.xpath # UStr
  THEN /\ s.relative_start # UNum /\ s.relative_end # UNum
       /\ s.relative_start <= s.relative_end
  ELSE /\ s.start # UNum /\ s.end # UNum
       /\ s.start <= s.end

C29_FieldIffArtefactDetail ==
  \A s \in StoredSpans : (s.field # UStr) <=> (s.type = "artefact_detail")

\* the highlighted elements of the rendered body with their 'active' state:
\* for each, whether it is the element of the active span
RenderedActive ==
  IF IsHtml(doc)
  THEN [k \in 1..Len(highlights) |->
          [active |-> highlights[k].active,
           ofActive |->
              \/ /\ activeSpan.kind = "span"
                 /\ highlights[k].spanId =
                      SpanIdOf(activeSpan.span, activeSpan.idx - 1)
              \/ /\ activeSpan.kind = "id"
                 /\ highlights[k].spanId = activeSpan.id]]
  ELSE [k \in 1..Len(renderPlainTextWithSpans) |->
          [active |-> renderPlainTextWithSpans[k].active,
           ofActive |->
              /\ activeSpan.kind = "span"
              /\ renderPlainTextWithSpans[k].key =
                   <<activeSpan.span.start, activeSpan.span.end>>]]

\* C30: in a rendered state at most one highlighted element is active, and
\* when the active span is a span of the selected prediction the active
\* elements are exactly the element of that span
C30_OneActiveElement ==
  (selectedPrediction # <<>> /\ hlTimer = <<>>) =>
     /\ \A j, k \in 1..Len(RenderedActive) :
          (RenderedActive[j].active /\ RenderedActive[k].active) => j = k
     /\ \A k \in 1..Len(RenderedActive) :
          RenderedActive[k].active <=> RenderedActive[k].ofActive

\* a step in which the deferred applyHighlights renders the highlights
HighlightsRendered ==
  /\ hlTimer # <<>> /\ hlTimer' = <<>>
  /\ UNCHANGED <<doc, selectedPrediction, activeSpan, editMode>>

\* C31: when the highlights are rendered while edit mode is on and a span is
\* active, the element of that span carries the resize handles and no other
\* element does; rendered while edit mode is off, no element carries one
C31_HandlesOnActiveElement ==
  [][HighlightsRendered =>
       \A k \in 1..Len(highlights') :
          highlights'[k].handles <=>
            /\ editMode
            /\ activeSpan.kind = "span"
            /\ highlights'[k].spanId =
                 SpanIdOf(activeSpan.span, activeSpan.idx - 1)]_vars

\* the text fragments under the nodes of the HTML document after
\* applyHighlights(spans), in document order
FragmentsAfter(spans) ==
  HighlightFrom(1,
                [frags |-> [n \in 1..Len(Nodes(1)) |-> <<Nodes(1)[n].text>>],
                 els |-> <<>>],
                spans, 1).frags

\* the span declares a valid range of the text of its node, with that text
DeclaresSubstring(span) ==
  /\ ResolveXPath(1, span.xpath) > 0
  /\ 0 <= span.relative_start /\ span.relative_start < span.relative_end
  /\ span.relative_end <= Len(Nodes(1)[ResolveXPath(1, span.xpath)].text)
  /\ span.text = Substring(Nodes(1)[ResolveXPath(1, span.xpath)].text,
                           span.relative_start, span.relative_end)

\* the text t cut at the boundaries of the two ranges, a before b
CutAt(t, a, b) ==
  << Substring(t, 0, a.relative_start),
     Substring(t, a.relative_start, a.relative_end),
     Substring(t, a.relative_end, b.relative_start),
     Substring(t, b.relative_start, b.relative_end),
     SubstringFrom(t, b.relative_end) >>

\* C32: two spans that resolve to the same node and declare disjoint valid
\* substrings of its text are both highlighted at their declared ranges, in
\* either order of the list
C32_DisjointSpansBothHighlighted ==
  (call # <<>> /\ call[1].fn = "highlight" /\ result # <<>>
     /\ Len(call[1].spans) = 2) =>
    LET a == call[1].spans[1]
        b == call[1].spans[2]
        n == ResolveXPath(1, a.xpath)
    IN  (/\ DeclaresSubstring(a) /\ DeclaresSubstring(b)
         /\ ResolveXPath(1, b.xpath) = n
         /\ (a.relative_end <= b.relative_start
               \/ b.relative_end <= a.relative_start)) =>
          /\ Len(result[1].els) = 2
          /\ FragmentsAfter(call[1].spans)[n] =
               IF a.relative_end <= b.relative_start
               THEN CutAt(Nodes(1)[n].text, a, b)
               ELSE CutAt(Nodes(1)[n].text, b, a)

\* a step of the mouseup listener on the range of the call
MouseUpHandled ==
  /\ call # <<>> /\ call[1].fn = "select"
  /\ result' # <<>> /\ result' # result

\* C33: a selection whose start and end nodes differ gives startOffset 0 and
\* endOffset the length of the selected text; a selection inside one node
\* gives the offsets of the range; a collapsed or blank selection gives no
\* candidate and changes no state
C33_SelectionOffsets ==
  [][MouseUpHandled =>
       LET r == call[1].range
           sel == result'[1].selection
           blank == Trim(RangeToString(doc, r)) = <<>>
       IN  /\ blank => (sel = <<>> /\ UNCHANGED compVars)
           /\ ~blank =>
                /\ sel # <<>> /\ selectedText' = sel
                /\ sel[1].startOffset = (IF r.sn = r.en THEN r.so ELSE 0)
                /\ sel[1].endOffset =
                     (IF r.sn = r.en THEN r.eo ELSE Len(sel[1].text))]_vars

C33_Witness ==
  /\ call # <<>> /\ call[1].fn = "select" /\ result # <<>>
  /\ call[1].range.sn # call[1].range.en
  /\ call[1].range.so > 0
  /\ selectedText = result[1].selection
  /\ selectedText # <<>> /\ selTimers # <<>>


\* the spans of the CorrectionRecord of prediction p
RecordSpans(p) ==
  {arrays[feedbackData[p][1].evidence_ref][i] :
     i \in 1..Len(arrays[feedbackData[p][1].evidence_ref])}

\* C34: every span committed to the CorrectionRecord of prediction p comes
\* from a candidate created while p was the selected prediction.  A candidate
\* made from a highlight of the HTML body carries the XPath of its node, so
\* the record of a prediction of the plain-text document, whose candidates
\* are made of flat spans, holds no span with an XPath.
C34_CandidateOfSelectedPrediction ==
  \A p \in LedgerKeys :
    ~IsHtml(DocOf(p)) => \A s \in RecordSpans(p) : s.xpath = UStr


\* highlight element el renders evidence span i of the list spans
HighlightOfSpan(el, spans, i) ==
  /\ el.spanId = SpanIdOf(spans[i], i - 1)
  /\ el.spanType = (IF spans[i].type # UStr THEN spans[i].type ELSE "default")
  /\ el.fieldName = spans[i].field

\* C35: at every moment the highlights present in the rendered email body
\* belong to the evidence spans of the selected prediction, and none is
\* present when no prediction is selected, whatever the interleaving of card
\* selections, submits and the deferred applyHighlights timers.
C35_HighlightsOfSelectedPrediction ==
  IF selectedPrediction = <<>> THEN highlights = <<>>
  ELSE \A k \in 1..Len(highlights) :
         \E i \in 1..Len(arrays[PredEvidenceRef(selectedPrediction[1])]) :
           HighlightOfSpan(highlights[k],
                           arrays[PredEvidenceRef(selectedPrediction[1])], i)


\* C36: in every reachable state ActiveSpan is either empty or one of the
\* evidence span objects of the selected prediction; it is never a bare span
\* id, a span of another prediction, or set while no prediction is selected.
C36_ActiveSpanOfSelectedPrediction ==
  \/ activeSpan.kind = "null"
  \/ /\ activeSpan.kind = "span"
     /\ selectedPrediction # <<>>
     /\ \E i \in 1..Len(arrays[PredEvidenceRef(selectedPrediction[1])]) :
          arrays[PredEvidenceRef(selectedPrediction[1])][i] = activeSpan.span


\* C37: in every reachable state edit mode is on only while a prediction is
\* selected.
C37_EditModeNeedsSelection ==
  editMode => selectedPrediction # <<>>

\* edit mode is on, a span is being edited and the ledger holds a record, so
\* that a submission from here has a selection and an edit to end
C37_Witness ==
  /\ editMode
  /\ selectedPrediction # <<>>
  /\ activeSpan.kind = "span"
  /\ LedgerKeys # {}

\* the spans applySpanEdit has appended to the list: those it gave a
\* "corrected-" or "new-" id
AppendedAt(list) ==
  {i \in 1..Len(list) :
     \E now \in Clock :
       list[i].id \in {"corrected-" \o ToString(now), "new-" \o ToString(now)}}

\* C38: the CorrectedSpans that applySpanEdit appends to one CorrectionRecord
\* have pairwise distinct ids, also when Date.now() does not advance between
\* two edits.
C38_AppendedIdsDistinct ==
  result # <<>> =>
    \A i, j \in AppendedAt(result[1].spans) :
      result[1].spans[i].id = result[1].spans[j].id => i = j


RECURSIVE ConcatFragments(_)
ConcatFragments(frags) ==
  IF frags = <<>> THEN <<>>
  ELSE Head(frags).text \o ConcatFragments(Tail(frags))

\* C39: for a plain-text document the texts of the rendered fragments, plain
\* and highlighted, concatenated in order equal the email content, each
\* character appearing once, for any span list, overlapping or nested spans
\* included.
C39_FragmentsCoverContent ==
  result # <<>> => ConcatFragments(result[1].fragments) = Content(2)


\* C40: every candidate produced by a free text selection is self-consistent:
\* endOffset - startOffset equals the length of the candidate's text, also
\* for a selection that begins or ends with whitespace.
C40_CandidateSelfConsistent ==
  selectedText # <<>> =>
    selectedText[1].endOffset - selectedText[1].startOffset
      = Len(selectedText[1].text)

====
